---- MODULE Spec2Model ----
(***************************************************************************)
(* Session-key lifecycle and delegated transaction pipeline of the        *)
(* agio-smart-wallet packages: SmartWalletService over a file-backed      *)
(* SessionStorage / WalletStorage, and the pure helpers of the core       *)
(* package (validateSession).                                             *)
(***************************************************************************)
EXTENDS Integers, Sequences, FiniteSets, TLC

(***************************************************************************)
(* Bounds of the model.                                                    *)
(***************************************************************************)
MaxTime == 2        \* Date.now() ranges over 0..MaxTime
MaxIndex == 1       \* wallet indexes passed by callers range over 0..MaxIndex
MaxStores == 2      \* number of session objects storeSession may create
MaxWallets == 3     \* number of wallet records saveWallet may create
MaxDirIndex == 3    \* wallet indexes of the wallet directory range over 0..MaxDirIndex
MaxSigBytes == 2    \* signatures inside a permissions context have 0..MaxSigBytes bytes
MaxRecords == 2     \* records the two stores of the storage contract hold at a time
MaxInits == 2       \* number of doInitialize() runs of the web signer

(***************************************************************************)
(* Constants of the core package.                                          *)
(***************************************************************************)
\* A JavaScript number too large for a 32-bit integer is held exactly as
\* the pair [h, ms] standing for h * 3600000 + ms with 0 <= ms < 3600000.
HOUR_MS == 60 * 60 * 1000

Num(h, ms) == [h |-> h + (ms \div HOUR_MS), ms |-> ms % HOUR_MS]

Plus(a, b) == Num(a.h + b.h, a.ms + b.ms)
Minus(a, b) == Num(a.h - b.h, a.ms - b.ms)
\* a * k for a small non-negative integer k (a.ms * k stays below 2^31)
Times(a, k) == Num(a.h * k, a.ms * k)
Less(a, b) == a.h < b.h \/ (a.h = b.h /\ a.ms < b.ms)
LessEq(a, b) == a = b \/ Less(a, b)

\* 4294967295 = 1193 * 3600000 + 167295
MAX_EXPIRY_SEC == Num(1193, 167295)
MAX_EXPIRY_MS == Times(MAX_EXPIRY_SEC, 1000)
DEFAULT_EXPIRY_HOURS == 24

(***************************************************************************)
(* Input domains.                                                          *)
(***************************************************************************)
\* a walletIndex argument that was omitted (undefined)
NoIndex == -1
\* a string field that is undefined
Undefined == "undefined"
\* a missing / empty permissionsContext (falsy in the code's test)
NoContext == ""

Users == {"u", "u:1"}
\* the users of the storage contract; "7" is a user id made of digits only
StorageUsers == {"7", "u"}
WalletIndexes == {NoIndex} \cup (0 .. MaxIndex)
DirIndexes == {NoIndex} \cup (0 .. MaxDirIndex)
SessionIds == {"s1", "s2"}
SessionKeys == {"k1"}
PermissionContexts == {NoContext, "0x00ctx"}
ExpiryChoices == {1}
Calls == {1}

\* addresses: lower-case form, checksummed form, and a malformed one
LowerAddresses == {"0xab1", "0xcd2", "0xacc"}
ChecksumAddresses == {"0xAb1", "0xCd2", "0xAcc"}
Addresses == LowerAddresses \cup ChecksumAddresses
BadAddress == "bad"

toLowerCase(a) ==
  CASE a = "0xAb1" -> "0xab1"
    [] a = "0xCd2" -> "0xcd2"
    [] a = "0xAcc" -> "0xacc"
    [] OTHER -> a

isAddress(a) == toLowerCase(a) \in LowerAddresses

\* viem getAddress: the checksummed form of a well-formed address
getAddress(a) ==
  CASE toLowerCase(a) = "0xab1" -> "0xAb1"
    [] toLowerCase(a) = "0xcd2" -> "0xCd2"
    [] toLowerCase(a) = "0xacc" -> "0xAcc"

\* viem privateKeyToAccount(key).address
privateKeyToAccount(k) ==
  CASE k = "k1" -> "0xAb1"
    [] k = "k2" -> "0xCd2"

(***************************************************************************)
(* State.                                                                  *)
(***************************************************************************)
VARIABLES
  now,           \* Date.now()
  sessions,      \* FileStorage.sessions : Map<key, SessionData>
  wallets,       \* FileStorage.wallets  : Map<key, WalletData>
  sessionsFile,  \* contents of data/sessions.json
  walletsFile,   \* contents of data/wallets.json
  nextOid,       \* identity of the next SessionData object to be allocated
  calls,         \* the sendTransaction invocations, POST /api/wallet requests or
                 \* initializeSigner calls in flight
  ret,           \* what the call completed by the last step returned or threw
  keyOrder,      \* insertion order of the keys of the two Maps and of the two files
  inMemory,      \* an InMemoryStorage instance given the same calls as the FileStorage
  signerModule   \* module state of useAlchemySigner: signer, initPromise, refs

vars ==
  <<now, sessions, wallets, sessionsFile, walletsFile, nextOid, calls, ret,
    keyOrder, inMemory, signerModule>>

NoReturn == [op |-> "none"]

EmptyMap == [k \in {} |-> 0]

Put(m, k, v) == [x \in (DOMAIN m) \cup {k} |-> IF x = k THEN v ELSE m[x]]

\* the object literal { ...a, <fields of b> }
Spread(a, b) ==
  [f \in (DOMAIN a) \cup (DOMAIN b) |-> IF f \in DOMAIN b THEN b[f] ELSE a[f]]

\* no key in either Map or file
NoKeys == [sessions |-> <<>>, wallets |-> <<>>, sessionsFile |-> <<>>, walletsFile |-> <<>>]

\* storage.ts:201-203: the two Maps of a new InMemoryStorage, with their key order
EmptyStore ==
  [sessions |-> EmptyMap, wallets |-> EmptyMap, sessionKeys |-> <<>>, walletKeys |-> <<>>]

\* part_006:8-15: signer = null, initPromise = null, the refs; promises[n] is
\* the promise of the n-th doInitialize() call, which creates signer n
ModuleLoaded ==
  [signer |-> <<>>, initPromise |-> <<>>, isAuthenticated |-> FALSE,
   isInitializing |-> FALSE, error |-> "", promises |-> <<>>]

(***************************************************************************)
(* Storage keys.                                                           *)
(***************************************************************************)
\* variant: index 1 is also stored under the bare user id
buildStorageKey_FromTwo(userId, walletIndex) ==
  IF walletIndex = NoIndex \/ walletIndex <= 1
    THEN userId
    ELSE userId \o ":" \o ToString(walletIndex)

\* lines 19-24
buildStorageKey(userId, walletIndex) ==
  IF walletIndex = NoIndex \/ walletIndex = 0
    THEN userId
    ELSE userId \o ":" \o ToString(walletIndex)

(***************************************************************************)
(* validateSession of the core package.  A session argument is a sequence *)
(* of length 0 (null) or 1 (the object).                                  *)
(***************************************************************************)
\* variant: a session is expired from the instant t = expiresAt
validateSession_ExpiredAtInstant(session, t) ==
  IF session = <<>>
    THEN [valid |-> FALSE, reason |-> "not_found"]
    ELSE IF session[1].revoked
      THEN [valid |-> FALSE, reason |-> "revoked"]
      ELSE IF t >= session[1].expiresAt
        THEN [valid |-> FALSE, reason |-> "expired"]
        ELSE [valid |-> TRUE]

\* variant: expiry is tested before revocation
validateSession_ExpiryFirst(session, t) ==
  IF session = <<>>
    THEN [valid |-> FALSE, reason |-> "not_found"]
    ELSE IF t > session[1].expiresAt
      THEN [valid |-> FALSE, reason |-> "expired"]
      ELSE IF session[1].revoked
        THEN [valid |-> FALSE, reason |-> "revoked"]
        ELSE [valid |-> TRUE]

validateSession(session, t) ==
  IF session = <<>>
    THEN [valid |-> FALSE, reason |-> "not_found"]
    ELSE IF session[1].revoked
      THEN [valid |-> FALSE, reason |-> "revoked"]
      ELSE IF t > session[1].expiresAt
        THEN [valid |-> FALSE, reason |-> "expired"]
        ELSE [valid |-> TRUE]

(***************************************************************************)
(* Strings.  A string is read as its sequence of tokens, a token being ":" *)
(* or a maximal run of other characters.                                   *)
(***************************************************************************)
RECURSIVE Flatten(_)
Flatten(tokens) ==
  IF tokens = <<>> THEN "" ELSE Head(tokens) \o Flatten(Tail(tokens))

UserTokens(userId) ==
  CASE userId = "u" -> <<"u">>
    [] userId = "u:1" -> <<"u", ":", "1">>
    [] userId = "7" -> <<"7">>

\* the strings the stores handle: user ids, `${userId}:` and storage keys
KnownTokens ==
  LET indexes == 1 .. (MaxIndex + MaxDirIndex + MaxWallets + 1)
      users == Users \cup StorageUsers
  IN {UserTokens(u) : u \in users}
       \cup {UserTokens(u) \o <<":">> : u \in users}
       \cup {UserTokens(u) \o <<":", ToString(i)>> : u \in users, i \in indexes}

TokenTable ==
  [str \in {Flatten(tokens) : tokens \in KnownTokens} |->
     CHOOSE tokens \in KnownTokens : Flatten(tokens) = str]

Tokens(str) == TokenTable[str]

\* String.prototype.startsWith
startsWith(str, prefix) ==
  LET a == Tokens(str)
      b == Tokens(prefix)
  IN Len(b) <= Len(a) /\ SubSeq(a, 1, Len(b)) = b

RECURSIVE SplitTokens(_, _)
SplitTokens(tokens, sep) ==
  IF \A n \in 1 .. Len(tokens) : tokens[n] # sep
    THEN <<tokens>>
    ELSE LET n == CHOOSE n \in 1 .. Len(tokens) :
                    tokens[n] = sep /\ \A m \in 1 .. (n - 1) : tokens[m] # sep
         IN <<SubSeq(tokens, 1, n - 1)>> \o SplitTokens(SubSeq(tokens, n + 1, Len(tokens)), sep)

\* String.prototype.split(sep); element [k] of the code is element k+1 here
split(str, sep) ==
  LET parts == SplitTokens(Tokens(str), sep)
  IN [n \in 1 .. Len(parts) |-> Flatten(parts[n])]

NaN == "NaN"

\* parseInt(str, 10) of a string without sign or blanks
parseInt(str) ==
  LET numbers == 0 .. (MaxIndex + MaxDirIndex + MaxWallets + 1)
  IN IF \E n \in numbers : ToString(n) = str
       THEN CHOOSE n \in numbers : ToString(n) = str
       ELSE NaN

(***************************************************************************)
(* Expiry helpers of the core package.  Instants and durations are Num     *)
(* pairs; an optional field is a sequence of length 0 (absent) or 1.       *)
(***************************************************************************)
Zero == Num(0, 0)

\* variant: zero hours is an ordinary duration
calculateExpiry_ZeroHours(options, t) ==
  IF options.expiresAt # <<>> /\ options.expiresAt[1] # Zero
    THEN options.expiresAt[1]
    ELSE LET hours == IF options.expiryHours # <<>>
                        THEN options.expiryHours[1] ELSE DEFAULT_EXPIRY_HOURS
         IN Plus(t, Times(Num(1, 0), hours))

\* lines 7-20; `if (options?.expiresAt)` is false for an absent field and for 0
calculateExpiry(options, t) ==
  IF options.expiresAt # <<>> /\ options.expiresAt[1] # Zero
    THEN options.expiresAt[1]
    ELSE LET hours == IF options.expiryHours # <<>>
                        THEN options.expiryHours[1] ELSE DEFAULT_EXPIRY_HOURS
         IN IF hours = 0
              THEN MAX_EXPIRY_MS
              ELSE Plus(t, Times(Num(1, 0), hours))

\* Math.floor(diff / (1000 * 60 * 60)) for diff >= 0
FloorHours(diff) == diff.h

\* Math.floor(diff / (1000 * 60)) for diff >= 0
FloorMinutes(diff) == diff.h * 60 + (diff.ms \div (1000 * 60))

\* variant: a year is reported from 365 whole days on
formatExpiry_YearFrom365(expiresAt, t) ==
  LET diff == Minus(expiresAt, t)
      hours == FloorHours(diff)
      days == hours \div 24
  IN IF LessEq(diff, Zero) THEN "Expired"
     ELSE IF LessEq(Minus(MAX_EXPIRY_MS, Num(0, 1000)), expiresAt) THEN "Never"
     ELSE IF days >= 365 THEN ToString(days \div 365) \o "y"
     ELSE IF days > 30 THEN ToString(days \div 30) \o "mo"
     ELSE IF days > 0 THEN ToString(days) \o "d"
     ELSE IF hours > 0 THEN ToString(hours) \o "h"
     ELSE ToString(FloorMinutes(diff)) \o "m"

\* lines 69-100
formatExpiry(expiresAt, t) ==
  LET diff == Minus(expiresAt, t)
      hours == FloorHours(diff)
      days == hours \div 24
  IN IF LessEq(diff, Zero) THEN "Expired"
     ELSE IF LessEq(Minus(MAX_EXPIRY_MS, Num(0, 1000)), expiresAt) THEN "Never"
     ELSE IF days > 365 THEN ToString(days \div 365) \o "y"
     ELSE IF days > 30 THEN ToString(days \div 30) \o "mo"
     ELSE IF days > 0 THEN ToString(days) \o "d"
     ELSE IF hours > 0 THEN ToString(hours) \o "h"
     ELSE ToString(FloorMinutes(diff)) \o "m"

(***************************************************************************)
(* Permissions contexts.  A hex string is the sequence of its characters.  *)
(***************************************************************************)
\* String.prototype.slice(start, end) for 0 <= start <= end
slice(chars, start, end) ==
  SubSeq(chars, start + 1, IF end < Len(chars) THEN end ELSE Len(chars))

\* String.prototype.slice(start) for 0 <= start
sliceFrom(chars, start) == SubSeq(chars, start + 1, Len(chars))

\* variant: the session id is taken one character early
extractSessionId_OneEarly(context) == <<"0", "x">> \o slice(context, 3, 35)

\* lines 55-57
extractSessionId(context) == <<"0", "x">> \o slice(context, 4, 36)

\* lines 62-64
extractSignature(context) == <<"0", "x">> \o sliceFrom(context, 36)

(***************************************************************************)
(* FileStorage.                                                            *)
(***************************************************************************)
\* the properties a stored object can hold as undefined (part_019:264)
OptionalProperties == {"accountId"}

\* JSON.stringify of a stored object: the fields that are not undefined,
\* without object identity
ToJSON(object) ==
  [f \in {g \in (DOMAIN object) \ {"oid"} :
            ~(g \in OptionalProperties /\ object[g] = Undefined)} |-> object[f]]

\* JSON.stringify of the table Object.fromEntries(m)
Serialize(m) == [k \in DOMAIN m |-> ToJSON(m[k])]

\* Map.prototype.set and delete on the insertion order of the keys
MapSet(keys, key) ==
  IF \E n \in 1 .. Len(keys) : keys[n] = key THEN keys ELSE Append(keys, key)

MapDelete(keys, key) == SelectSeq(keys, LAMBDA k : k # key)

\* a key that is a canonical array index ("0", "1", ...), and its number
ArrayIndexes == 0 .. (MaxIndex + MaxDirIndex + MaxWallets + 1)
IsArrayIndex(key) == \E n \in ArrayIndexes : ToString(n) = key
ArrayIndex(key) == CHOOSE n \in ArrayIndexes : ToString(n) = key

\* ascending order of a set of numbers
RECURSIVE Ascending(_)
Ascending(S) ==
  IF S = {} THEN <<>>
  ELSE LET least == CHOOSE x \in S : \A y \in S : x <= y
       IN <<least>> \o Ascending(S \ {least})

\* lines 141, 146: the property order of Object.fromEntries(map), which
\* JSON.stringify writes and Object.entries(JSON.parse(...)) reads back:
\* array indexes in ascending numeric order, then the other keys in
\* insertion order
ObjectKeys(keys) ==
  LET indexes ==
        Ascending({ArrayIndex(keys[n]) : n \in {m \in 1 .. Len(keys) : IsArrayIndex(keys[m])}})
  IN [n \in 1 .. Len(indexes) |-> ToString(indexes[n])]
       \o SelectSeq(keys, LAMBDA k : ~IsArrayIndex(k))

\* lines 140-143: persistSessions(), the Map's key order being order.sessions
persistSessions(order) ==
  /\ sessionsFile' = Serialize(sessions')
  /\ keyOrder' = [order EXCEPT !.sessionsFile = ObjectKeys(order.sessions)]

\* lines 145-148: persistWallets()
persistWallets(order) ==
  /\ walletsFile' = Serialize(wallets')
  /\ keyOrder' = [order EXCEPT !.walletsFile = ObjectKeys(order.wallets)]

\* lines 40-44
FileStorage_saveSession(userId, session, walletIndex) ==
  LET key == buildStorageKey(userId, walletIndex)
  IN /\ sessions' = Put(sessions, key, session)
     /\ persistSessions([keyOrder EXCEPT !.sessions = MapSet(@, key)])

\* lines 77-81
FileStorage_saveWallet(userId, wallet, walletIndex) ==
  LET key == buildStorageKey(userId, walletIndex)
  IN /\ wallets' = Put(wallets, key, wallet)
     /\ persistWallets([keyOrder EXCEPT !.wallets = MapSet(@, key)])

Storage_getSession(userId, walletIndex) ==
  LET key == buildStorageKey(userId, walletIndex)
  IN IF key \in DOMAIN sessions THEN <<sessions[key]>> ELSE <<>>

Storage_getWallet(userId, walletIndex) ==
  LET key == buildStorageKey(userId, walletIndex)
  IN IF key \in DOMAIN wallets THEN <<wallets[key]>> ELSE <<>>

\* the keys a list operation of userId selects (part_000:54, 91-93)
KeysOf(m, userId) ==
  {key \in DOMAIN m : key = userId \/ startsWith(key, userId \o ":")}

\* the wallet index getWallets reads from a selected key (lines 91-95)
KeyIndex(key, userId) ==
  IF key = userId THEN 0 ELSE parseInt(split(key, ":")[2])

\* the keys of m that a list operation of userId selects, in Map order
SelectedKeys(m, keys, userId) ==
  LET chosen == KeysOf(m, userId)
  IN SelectSeq(keys, LAMBDA key : key \in chosen)

\* lines 51-59 on a Map m whose keys are in the order keys: the sessions
\* of the selected keys, in Map order
ListSessions(m, keys, userId) ==
  LET selected == SelectedKeys(m, keys, userId)
  IN [n \in 1 .. Len(selected) |-> m[selected[n]]]

Storage_getSessions(userId) == ListSessions(sessions, keyOrder.sessions, userId)

\* Array.prototype.sort((a, b) => a.walletIndex - b.walletIndex): stable
RECURSIVE SortByWalletIndex(_)
SortByWalletIndex(list) ==
  IF list = <<>> THEN <<>>
  ELSE LET least == CHOOSE n \in 1 .. Len(list) :
                      /\ \A m \in 1 .. Len(list) : list[n].walletIndex <= list[m].walletIndex
                      /\ \A m \in 1 .. (n - 1) : list[m].walletIndex # list[n].walletIndex
       IN <<list[least]>>
            \o SortByWalletIndex(SubSeq(list, 1, least - 1) \o SubSeq(list, least + 1, Len(list)))

\* lines 88-99: the wallets of the selected keys tagged with walletIndex and
\* sorted by it; entries of equal index keep their Map order
ListWallets(m, keys, userId) ==
  LET selected == SelectedKeys(m, keys, userId)
  IN SortByWalletIndex(
       [n \in 1 .. Len(selected) |->
          Spread(m[selected[n]], [walletIndex |-> KeyIndex(selected[n], userId)])])

Storage_getWallets(userId) == ListWallets(wallets, keyOrder.wallets, userId)

Max(S) == CHOOSE x \in S : \A y \in S : y <= x

\* lines 101-105
Storage_getNextWalletIndex(userId) ==
  LET indexes == {KeyIndex(key, userId) : key \in KeysOf(wallets, userId)}
  IN IF KeysOf(wallets, userId) = {} THEN 0 ELSE Max(indexes) + 1

\* revoked := true on the object stored at key, seen through every reference
RevokeObject(oid) ==
  [c \in Calls |->
     IF calls[c].session # <<>> /\ calls[c].session[1].oid = oid
       THEN [calls[c] EXCEPT !.session = <<[calls[c].session[1] EXCEPT !.revoked = TRUE]>>]
       ELSE calls[c]]

\* variant: the flag is set in the Map only
FileStorage_revokeSession_NoPersist(userId, walletIndex) ==
  LET key == buildStorageKey(userId, walletIndex)
  IN IF key \in DOMAIN sessions
       THEN /\ sessions' = [sessions EXCEPT ![key].revoked = TRUE]
            /\ calls' = RevokeObject(sessions[key].oid)
            /\ UNCHANGED <<sessionsFile, keyOrder>>
       ELSE UNCHANGED <<sessions, calls, sessionsFile, keyOrder>>

\* lines 61-68
FileStorage_revokeSession(userId, walletIndex) ==
  LET key == buildStorageKey(userId, walletIndex)
  IN IF key \in DOMAIN sessions
       THEN /\ sessions' = [sessions EXCEPT ![key].revoked = TRUE]
            /\ calls' = RevokeObject(sessions[key].oid)
            /\ persistSessions(keyOrder)
       ELSE UNCHANGED <<sessions, calls, sessionsFile, keyOrder>>

\* Map.prototype.delete on the entries
Remove(m, k) == [x \in (DOMAIN m) \ {k} |-> m[x]]

\* lines 70-74
FileStorage_deleteSession(userId, walletIndex) ==
  LET key == buildStorageKey(userId, walletIndex)
  IN /\ sessions' = Remove(sessions, key)
     /\ persistSessions([keyOrder EXCEPT !.sessions = MapDelete(@, key)])

\* lines 107-111
FileStorage_deleteWallet(userId, walletIndex) ==
  LET key == buildStorageKey(userId, walletIndex)
  IN /\ wallets' = Remove(wallets, key)
     /\ persistWallets([keyOrder EXCEPT !.wallets = MapDelete(@, key)])

\* lines 114-125 and 127-138 on a new instance: the entries of each file
\* are set into an empty Map in the file's property order.  An object read
\* from a file is a new object, which no sendTransaction call holds.
FileStorage_constructor ==
  /\ sessions' = [k \in DOMAIN sessionsFile |-> Spread(sessionsFile[k], [oid |-> 0])]
  /\ wallets' = walletsFile
  /\ keyOrder' = [keyOrder EXCEPT !.sessions = keyOrder.sessionsFile,
                                  !.wallets = keyOrder.walletsFile]

(***************************************************************************)
(* InMemoryStorage (storage.ts:201-252).  store is the instance: its two   *)
(* Maps and the insertion order of their keys.                             *)
(***************************************************************************)
\* storage.ts:191-196
InMemoryStorage_buildStorageKey(userId, walletIndex) ==
  IF walletIndex = NoIndex \/ walletIndex = 0
    THEN userId
    ELSE userId \o ":" \o ToString(walletIndex)

\* lines 205-208
InMemoryStorage_saveSession(store, userId, session, walletIndex) ==
  LET key == InMemoryStorage_buildStorageKey(userId, walletIndex)
  IN [store EXCEPT !.sessions = Put(@, key, session), !.sessionKeys = MapSet(@, key)]

\* lines 210-213
InMemoryStorage_getSession(store, userId, walletIndex) ==
  LET key == InMemoryStorage_buildStorageKey(userId, walletIndex)
  IN IF key \in DOMAIN store.sessions THEN <<store.sessions[key]>> ELSE <<>>

\* lines 215-223
InMemoryStorage_getSessions(store, userId) ==
  LET selected ==
        SelectSeq(store.sessionKeys,
                  LAMBDA key : key = userId \/ startsWith(key, userId \o ":"))
  IN [n \in 1 .. Len(selected) |-> store.sessions[selected[n]]]

\* variant: the flag is set on a copy of the stored object
InMemoryStorage_revokeSession_OnCopy(store, userId, walletIndex) == store

\* lines 225-231
InMemoryStorage_revokeSession(store, userId, walletIndex) ==
  LET key == InMemoryStorage_buildStorageKey(userId, walletIndex)
  IN IF key \in DOMAIN store.sessions
       THEN [store EXCEPT !.sessions[key].revoked = TRUE]
       ELSE store

\* lines 233-236
InMemoryStorage_deleteSession(store, userId, walletIndex) ==
  LET key == InMemoryStorage_buildStorageKey(userId, walletIndex)
  IN [store EXCEPT !.sessions = Remove(@, key), !.sessionKeys = MapDelete(@, key)]

\* lines 238-241
InMemoryStorage_saveWallet(store, userId, wallet, walletIndex) ==
  LET key == InMemoryStorage_buildStorageKey(userId, walletIndex)
  IN [store EXCEPT !.wallets = Put(@, key, wallet), !.walletKeys = MapSet(@, key)]

\* lines 243-246
InMemoryStorage_getWallet(store, userId, walletIndex) ==
  LET key == InMemoryStorage_buildStorageKey(userId, walletIndex)
  IN IF key \in DOMAIN store.wallets THEN <<store.wallets[key]>> ELSE <<>>

\* lines 248-251
InMemoryStorage_deleteWallet(store, userId, walletIndex) ==
  LET key == InMemoryStorage_buildStorageKey(userId, walletIndex)
  IN [store EXCEPT !.wallets = Remove(@, key), !.walletKeys = MapDelete(@, key)]

(***************************************************************************)
(* The storage contract (storage.ts:120-185): each call is made on the     *)
(* FileStorage instance and, with the same arguments, on the               *)
(* InMemoryStorage instance; ret holds what the two calls return, a save,  *)
(* revoke or delete returning undefined.                                   *)
(***************************************************************************)
Records == Cardinality(DOMAIN sessions) + Cardinality(DOMAIN wallets)

Contract_saveSession(userId, session, walletIndex) ==
  /\ (Records < MaxRecords \/ buildStorageKey(userId, walletIndex) \in DOMAIN sessions)
  /\ FileStorage_saveSession(userId, session, walletIndex)
  /\ inMemory' = InMemoryStorage_saveSession(inMemory, userId, session, walletIndex)
  /\ ret' = [op |-> "saveSession", file |-> Undefined, memory |-> Undefined]
  /\ UNCHANGED <<now, wallets, walletsFile, nextOid, calls, signerModule>>

Contract_getSession(userId, walletIndex) ==
  /\ ret' = [op |-> "getSession", file |-> Storage_getSession(userId, walletIndex),
             memory |-> InMemoryStorage_getSession(inMemory, userId, walletIndex)]
  /\ UNCHANGED <<now, sessions, wallets, sessionsFile, walletsFile, nextOid, calls,
                 keyOrder, inMemory, signerModule>>

Contract_getSessions(userId) ==
  /\ ret' = [op |-> "getSessions", file |-> Storage_getSessions(userId),
             memory |-> InMemoryStorage_getSessions(inMemory, userId)]
  /\ UNCHANGED <<now, sessions, wallets, sessionsFile, walletsFile, nextOid, calls,
                 keyOrder, inMemory, signerModule>>

Contract_revokeSession(userId, walletIndex) ==
  /\ FileStorage_revokeSession(userId, walletIndex)
  /\ inMemory' = InMemoryStorage_revokeSession(inMemory, userId, walletIndex)
  /\ ret' = [op |-> "revokeSession", file |-> Undefined, memory |-> Undefined]
  /\ UNCHANGED <<now, wallets, walletsFile, nextOid, signerModule>>

Contract_deleteSession(userId, walletIndex) ==
  /\ FileStorage_deleteSession(userId, walletIndex)
  /\ inMemory' = InMemoryStorage_deleteSession(inMemory, userId, walletIndex)
  /\ ret' = [op |-> "deleteSession", file |-> Undefined, memory |-> Undefined]
  /\ UNCHANGED <<now, wallets, walletsFile, nextOid, calls, signerModule>>

Contract_saveWallet(userId, wallet, walletIndex) ==
  /\ (Records < MaxRecords \/ buildStorageKey(userId, walletIndex) \in DOMAIN wallets)
  /\ FileStorage_saveWallet(userId, wallet, walletIndex)
  /\ inMemory' = InMemoryStorage_saveWallet(inMemory, userId, wallet, walletIndex)
  /\ ret' = [op |-> "saveWallet", file |-> Undefined, memory |-> Undefined]
  /\ UNCHANGED <<now, sessions, sessionsFile, nextOid, calls, signerModule>>

Contract_getWallet(userId, walletIndex) ==
  /\ ret' = [op |-> "getWallet", file |-> Storage_getWallet(userId, walletIndex),
             memory |-> InMemoryStorage_getWallet(inMemory, userId, walletIndex)]
  /\ UNCHANGED <<now, sessions, wallets, sessionsFile, walletsFile, nextOid, calls,
                 keyOrder, inMemory, signerModule>>

Contract_deleteWallet(userId, walletIndex) ==
  /\ FileStorage_deleteWallet(userId, walletIndex)
  /\ inMemory' = InMemoryStorage_deleteWallet(inMemory, userId, walletIndex)
  /\ ret' = [op |-> "deleteWallet", file |-> Undefined, memory |-> Undefined]
  /\ UNCHANGED <<now, sessions, sessionsFile, nextOid, calls, signerModule>>

\* The server process is started again (part_002:61): the FileStorage is
\* constructed from the files, an InMemoryStorage would start empty.
Restart ==
  /\ FileStorage_constructor
  /\ inMemory' = EmptyStore
  /\ ret' = [op |-> "new FileStorage"]
  /\ UNCHANGED <<now, sessionsFile, walletsFile, nextOid, calls, signerModule>>

(***************************************************************************)
(* SmartWalletService: wallet and session operations.                      *)
(***************************************************************************)
SaveWallet(userId, accountAddress, walletIndex) ==
  /\ (Cardinality(DOMAIN wallets) < MaxWallets
        \/ buildStorageKey(userId, walletIndex) \in DOMAIN wallets)
  /\ IF ~isAddress(accountAddress)
       THEN /\ ret' = [op |-> "saveWallet", error |-> "InvalidAddressError"]
            /\ UNCHANGED <<wallets, walletsFile, keyOrder>>
       ELSE LET wallet == [accountAddress |-> getAddress(accountAddress),
                           accountId |-> IF walletIndex # NoIndex /\ walletIndex > 0
                                           THEN ToString(walletIndex) ELSE Undefined,
                           createdAt |-> now]
            IN /\ FileStorage_saveWallet(userId, wallet, walletIndex)
               /\ ret' = [op |-> "saveWallet", error |-> ""]
  /\ UNCHANGED <<now, sessions, sessionsFile, nextOid, calls, inMemory, signerModule>>

GetWallet(userId, walletIndex) ==
  /\ ret' = [op |-> "getWallet", value |-> Storage_getWallet(userId, walletIndex)]
  /\ UNCHANGED <<now, sessions, wallets, sessionsFile, walletsFile, nextOid, calls,
                 keyOrder, inMemory, signerModule>>

\* A POST /api/wallet request that is not being handled.
IdleRequest == [pc |-> "idle", userId |-> "", accountAddress |-> "", index |-> NoIndex]

\* part_002:83-93: the body has no walletIndex; getNextWalletIndex reads the
\* map, then the handler awaits
PostWalletStart(r, userId, accountAddress) ==
  /\ calls[r].pc = "idle"
  /\ calls' = [calls EXCEPT ![r] =
       [pc |-> "awaitNextIndex", userId |-> userId, accountAddress |-> accountAddress,
        index |-> Storage_getNextWalletIndex(userId)]]
  /\ ret' = NoReturn
  /\ UNCHANGED <<now, sessions, wallets, sessionsFile, walletsFile, nextOid,
                 keyOrder, inMemory, signerModule>>

\* part_002:94-96: saveWallet(userId, accountAddress, index > 0 ? index : undefined)
PostWalletSave(r) ==
  LET request == calls[r]
      walletIndex == IF request.index > 0 THEN request.index ELSE NoIndex
      key == buildStorageKey(request.userId, walletIndex)
      wallet == [accountAddress |-> getAddress(request.accountAddress),
                 accountId |-> IF walletIndex # NoIndex /\ walletIndex > 0
                                 THEN ToString(walletIndex) ELSE Undefined,
                 createdAt |-> now]
  IN /\ request.pc = "awaitNextIndex"
     /\ (Cardinality(DOMAIN wallets) < MaxWallets \/ key \in DOMAIN wallets)
     /\ FileStorage_saveWallet(request.userId, wallet, walletIndex)
     /\ calls' = [calls EXCEPT ![r] = IdleRequest]
     /\ ret' = [op |-> "postWallet", userId |-> request.userId,
                accountAddress |-> request.accountAddress, walletIndex |-> request.index]
     /\ UNCHANGED <<now, sessions, sessionsFile, nextOid, inMemory, signerModule>>

\* core calculateExpiry(options) called at Date.now() = now
CalculateExpiry(options) ==
  /\ ret' = [op |-> "calculateExpiry", options |-> options,
             value |-> calculateExpiry(options, now)]
  /\ UNCHANGED <<now, sessions, wallets, sessionsFile, walletsFile, nextOid, calls,
                 keyOrder, inMemory, signerModule>>

\* core formatExpiry(expiresAt) called at Date.now() = now
FormatExpiry(expiresAt) ==
  /\ ret' = [op |-> "formatExpiry", expiresAt |-> expiresAt,
             value |-> formatExpiry(expiresAt, now)]
  /\ UNCHANGED <<now, sessions, wallets, sessionsFile, walletsFile, nextOid, calls,
                 keyOrder, inMemory, signerModule>>

\* core extractSessionId(context)
ExtractSessionId(context) ==
  /\ ret' = [op |-> "extractSessionId", context |-> context,
             value |-> extractSessionId(context)]
  /\ UNCHANGED <<now, sessions, wallets, sessionsFile, walletsFile, nextOid, calls,
                 keyOrder, inMemory, signerModule>>

\* core extractSignature(context)
ExtractSignature(context) ==
  /\ ret' = [op |-> "extractSignature", context |-> context,
             value |-> extractSignature(context)]
  /\ UNCHANGED <<now, sessions, wallets, sessionsFile, walletsFile, nextOid, calls,
                 keyOrder, inMemory, signerModule>>

\* FileStorage.getSessions(userId)
GetSessions(userId) ==
  /\ ret' = [op |-> "getSessions", userId |-> userId, value |-> Storage_getSessions(userId)]
  /\ UNCHANGED <<now, sessions, wallets, sessionsFile, walletsFile, nextOid, calls,
                 keyOrder, inMemory, signerModule>>

\* GET /api/wallets: FileStorage.getWallets(userId)
GetWallets(userId) ==
  /\ ret' = [op |-> "getWallets", userId |-> userId, value |-> Storage_getWallets(userId)]
  /\ UNCHANGED <<now, sessions, wallets, sessionsFile, walletsFile, nextOid, calls,
                 keyOrder, inMemory, signerModule>>

\* FileStorage.getNextWalletIndex(userId)
GetNextWalletIndex(userId) ==
  /\ ret' = [op |-> "getNextWalletIndex", userId |-> userId,
             value |-> Storage_getNextWalletIndex(userId)]
  /\ UNCHANGED <<now, sessions, wallets, sessionsFile, walletsFile, nextOid, calls,
                 keyOrder, inMemory, signerModule>>

\* variant: the revoked flag of the session already at the key is kept
StoreSession_KeepRevoked(userId, session, walletIndex) ==
  /\ nextOid <= MaxStores
  /\ IF session.sessionKeyAddress = Undefined
       THEN /\ ret' = [op |-> "storeSession", error |-> "TypeError"]
            /\ UNCHANGED <<sessions, sessionsFile, nextOid, keyOrder>>
       ELSE IF toLowerCase(privateKeyToAccount(session.sessionKey))
                 # toLowerCase(session.sessionKeyAddress)
         THEN /\ ret' = [op |-> "storeSession", error |-> "Session key address mismatch"]
              /\ UNCHANGED <<sessions, sessionsFile, nextOid, keyOrder>>
         ELSE LET key == buildStorageKey(userId, walletIndex)
                  fullSession ==
                    Spread(session,
                      [oid |-> nextOid,
                       sessionKeyAddress |-> getAddress(session.sessionKeyAddress),
                       accountAddress |-> getAddress(session.accountAddress),
                       revoked |-> key \in DOMAIN sessions /\ sessions[key].revoked,
                       createdAt |-> now])
              IN /\ FileStorage_saveSession(userId, fullSession, walletIndex)
                 /\ nextOid' = nextOid + 1
                 /\ ret' = [op |-> "storeSession", error |-> ""]
  /\ UNCHANGED <<now, wallets, walletsFile, calls, inMemory, signerModule>>

\* variant: the derived address is not compared with the claimed one
StoreSession_NoCheck(userId, session, walletIndex) ==
  /\ nextOid <= MaxStores
  /\ IF session.sessionKeyAddress = Undefined
       THEN /\ ret' = [op |-> "storeSession", error |-> "TypeError"]
            /\ UNCHANGED <<sessions, sessionsFile, nextOid, keyOrder>>
       ELSE LET fullSession ==
                  Spread(session,
                    [oid |-> nextOid,
                     sessionKeyAddress |-> getAddress(session.sessionKeyAddress),
                     accountAddress |-> getAddress(session.accountAddress),
                     revoked |-> FALSE,
                     createdAt |-> now])
            IN /\ FileStorage_saveSession(userId, fullSession, walletIndex)
               /\ nextOid' = nextOid + 1
               /\ ret' = [op |-> "storeSession", error |-> ""]
  /\ UNCHANGED <<now, wallets, walletsFile, calls, inMemory, signerModule>>

\* lines 291-311: storeSession
StoreSession(userId, session, walletIndex) ==
  /\ nextOid <= MaxStores
  /\ IF session.sessionKeyAddress = Undefined
       THEN \* session.sessionKeyAddress.toLowerCase() on undefined
            /\ ret' = [op |-> "storeSession", error |-> "TypeError"]
            /\ UNCHANGED <<sessions, sessionsFile, nextOid, keyOrder>>
       ELSE IF toLowerCase(privateKeyToAccount(session.sessionKey))
                 # toLowerCase(session.sessionKeyAddress)
         THEN /\ ret' = [op |-> "storeSession", error |-> "Session key address mismatch"]
              /\ UNCHANGED <<sessions, sessionsFile, nextOid, keyOrder>>
         ELSE LET fullSession ==
                    Spread(session,
                      [oid |-> nextOid,
                       sessionKeyAddress |-> getAddress(session.sessionKeyAddress),
                       accountAddress |-> getAddress(session.accountAddress),
                       revoked |-> FALSE,
                       createdAt |-> now])
              IN /\ FileStorage_saveSession(userId, fullSession, walletIndex)
                 /\ nextOid' = nextOid + 1
                 /\ ret' = [op |-> "storeSession", error |-> ""]
  /\ UNCHANGED <<now, wallets, walletsFile, calls, inMemory, signerModule>>

GetSession(userId, walletIndex) ==
  /\ ret' = [op |-> "getSession", value |-> Storage_getSession(userId, walletIndex)]
  /\ UNCHANGED <<now, sessions, wallets, sessionsFile, walletsFile, nextOid, calls,
                 keyOrder, inMemory, signerModule>>

ValidateUserSession(userId, walletIndex) ==
  /\ ret' = [op |-> "validateUserSession",
             value |-> validateSession(Storage_getSession(userId, walletIndex), now)]
  /\ UNCHANGED <<now, sessions, wallets, sessionsFile, walletsFile, nextOid, calls,
                 keyOrder, inMemory, signerModule>>

(***************************************************************************)
(* GET /api/session (part_002:162-183).  query is the walletIndex query    *)
(* parameter, Undefined when the request has none.                         *)
(***************************************************************************)
Queries == {Undefined, "", "0", "1"}

\* line 164: an absent or empty parameter is falsy
QueryIndex(query) ==
  IF query = Undefined \/ query = "" THEN NoIndex ELSE parseInt(query)

\* variant: the stored session itself is sent, tagged with walletIndex
GetSessionRoute_WholeSession(userId, query) ==
  LET walletIndex == QueryIndex(query)
      session == Storage_getSession(userId, walletIndex)
  IN /\ ret' = IF session = <<>>
                 THEN [op |-> "GET /api/session", status |-> 404,
                       body |-> [error |-> "No session found"]]
                 ELSE [op |-> "GET /api/session", status |-> 200,
                       body |-> Spread([f \in (DOMAIN session[1]) \ {"oid"} |-> session[1][f]],
                                       [walletIndex |-> IF walletIndex = NoIndex
                                                          THEN 0 ELSE walletIndex])]
     /\ UNCHANGED <<now, sessions, wallets, sessionsFile, walletsFile, nextOid, calls,
                    keyOrder, inMemory, signerModule>>

GetSessionRoute(userId, query) ==
  LET walletIndex == QueryIndex(query)
      session == Storage_getSession(userId, walletIndex)
  IN /\ ret' = IF session = <<>>
                 THEN [op |-> "GET /api/session", status |-> 404,
                       body |-> [error |-> "No session found"]]
                 ELSE [op |-> "GET /api/session", status |-> 200,
                       body |-> [sessionId |-> session[1].sessionId,
                                 permissions |-> session[1].permissions,
                                 expiresAt |-> session[1].expiresAt,
                                 revoked |-> session[1].revoked,
                                 walletIndex |-> IF walletIndex = NoIndex
                                                   THEN 0 ELSE walletIndex]]
     /\ UNCHANGED <<now, sessions, wallets, sessionsFile, walletsFile, nextOid, calls,
                    keyOrder, inMemory, signerModule>>

\* variant: the flag is set on a copy of the stored object
RevokeSession_OnCopy(userId, walletIndex) ==
  /\ ret' = [op |-> "revokeSession", error |-> ""]
  /\ UNCHANGED <<now, sessions, wallets, sessionsFile, walletsFile, nextOid, calls,
                 keyOrder, inMemory, signerModule>>

\* variant: a key without a session gets a revoked placeholder
RevokeSession_Upsert(userId, walletIndex) ==
  LET key == buildStorageKey(userId, walletIndex)
  IN /\ IF key \in DOMAIN sessions
          THEN /\ sessions' = [sessions EXCEPT ![key].revoked = TRUE]
               /\ calls' = RevokeObject(sessions[key].oid)
          ELSE /\ sessions' = Put(sessions, key, [oid |-> 0, revoked |-> TRUE])
               /\ UNCHANGED calls
     /\ persistSessions([keyOrder EXCEPT !.sessions = MapSet(@, key)])
     /\ ret' = [op |-> "revokeSession", error |-> ""]
     /\ UNCHANGED <<now, wallets, walletsFile, nextOid, inMemory, signerModule>>

\* variant: the flag is flipped instead of set
RevokeSession_Toggle(userId, walletIndex) ==
  LET key == buildStorageKey(userId, walletIndex)
  IN /\ IF key \in DOMAIN sessions
          THEN /\ sessions' = [sessions EXCEPT ![key].revoked = ~@]
               /\ persistSessions(keyOrder)
               /\ UNCHANGED calls
          ELSE UNCHANGED <<sessions, calls, sessionsFile, keyOrder>>
     /\ ret' = [op |-> "revokeSession", error |-> ""]
     /\ UNCHANGED <<now, wallets, walletsFile, nextOid, inMemory, signerModule>>

\* part_019:340-342
RevokeSession(userId, walletIndex) ==
  /\ FileStorage_revokeSession(userId, walletIndex)
  /\ ret' = [op |-> "revokeSession", error |-> ""]
  /\ UNCHANGED <<now, wallets, walletsFile, nextOid, inMemory, signerModule>>

(***************************************************************************)
(* The clock.                                                              *)
(***************************************************************************)
Tick ==
  /\ now < MaxTime
  /\ now' = now + 1
  /\ ret' = NoReturn
  /\ UNCHANGED <<sessions, wallets, sessionsFile, walletsFile, nextOid, calls,
                 keyOrder, inMemory, signerModule>>

(***************************************************************************)
(* SmartWalletService.sendTransaction.  One action per stretch of code    *)
(* between two awaits; the account infrastructure's answers are inputs.   *)
(***************************************************************************)
IdleCall ==
  [pc |-> "idle", key |-> "", session |-> <<>>, validation |-> <<>>, steps |-> <<>>,
   signerKey |-> <<>>, permissions |-> <<>>, prepareArgs |-> <<>>, signArgs |-> <<>>,
   submitArgs |-> <<>>, callId |-> "", result |-> <<>>, error |-> ""]

TxTargets == {"0xacc", BadAddress}
PrepareOutcomes == {"ok", "prepare_rejected"}
SignOutcomes == {"ok", "sign_failed"}
\* sendPreparedCalls throws, or returns preparedCallIds
SubmitOutcomes == {[throws |-> "submit_rejected", preparedCallIds |-> <<>>],
                   [throws |-> "", preparedCallIds |-> <<>>],
                   [throws |-> "", preparedCallIds |-> <<"call1">>]}
\* waitForCallsStatus throws (failure or timeout), or returns receipts
WaitOutcomes == {[throws |-> "wait_timeout", receipts |-> <<>>],
                 [throws |-> "wait_failed", receipts |-> <<>>],
                 [throws |-> "", receipts |-> <<>>],
                 [throws |-> "", receipts |-> <<[transactionHash |-> ""]>>],
                 [throws |-> "", receipts |-> <<[transactionHash |-> "0xtx"]>>],
                 [throws |-> "", receipts |-> <<[transactionHash |-> ""],
                                                [transactionHash |-> "0xtx2"]>>]}

Throw(call, cause) == [call EXCEPT !.pc = "thrown", !.error = cause]

Return(call, txHash) ==
  [call EXCEPT !.pc = "returned",
               !.result = <<[success |-> TRUE, transactionHash |-> txHash]>>]

\* line 360: this.getSession(...) reads the map, then the call awaits
SendTransactionStart(c, userId, walletIndex) ==
  /\ calls[c].pc = "idle"
  /\ calls' = [calls EXCEPT ![c] =
       [IdleCall EXCEPT !.pc = "awaitGetSession",
                        !.key = buildStorageKey(userId, walletIndex),
                        !.session = Storage_getSession(userId, walletIndex),
                        !.steps = <<"getSession">>]]
  /\ ret' = NoReturn
  /\ UNCHANGED <<now, sessions, wallets, sessionsFile, walletsFile, nextOid,
                 keyOrder, inMemory, signerModule>>

\* line 383: permissions = { context: session.permissionsContext }
PermissionsOf(session) == <<[context |-> session.permissionsContext]>>

\* lines 388-401: the arguments of prepareCalls
PrepareArgs(session) ==
  <<[from |-> session.accountAddress, permissions |-> PermissionsOf(session)[1]]>>

\* variant: the signer is created before the validation result is tested
ValidateAndPrepare_SignerFirst(call, to, t) ==
  LET validation == validateSession(call.session, t)
      signer == [call EXCEPT !.validation = <<validation>>,
                             !.steps = @ \o <<"validateSession", "privateKeyToAccountSigner">>]
  IN IF ~validation.valid \/ call.session = <<>>
       THEN Throw(signer, "Session " \o
                  (IF "reason" \in DOMAIN validation THEN validation.reason ELSE "invalid"))
       ELSE IF call.session[1].permissionsContext = NoContext
         THEN Throw(signer, "No permissions context found for session")
         ELSE IF ~isAddress(to)
           THEN Throw(signer, "InvalidAddressError")
           ELSE [signer EXCEPT !.pc = "awaitPrepareCalls",
                               !.steps = Append(@, "prepareCalls"),
                               !.signerKey = <<call.session[1].sessionKey>>,
                               !.permissions = PermissionsOf(call.session[1]),
                               !.prepareArgs = PrepareArgs(call.session[1])]

\* variant: the permissions context is tested only after the signer is made
ValidateAndPrepare_ContextLate(call, to, t) ==
  LET validation == validateSession(call.session, t)
      validated == [call EXCEPT !.validation = <<validation>>,
                                !.steps = Append(@, "validateSession")]
  IN IF ~validation.valid \/ call.session = <<>>
       THEN Throw(validated, "Session " \o
                  (IF "reason" \in DOMAIN validation THEN validation.reason ELSE "invalid"))
       ELSE LET signer == [validated EXCEPT !.steps = Append(@, "privateKeyToAccountSigner"),
                                                !.signerKey = <<call.session[1].sessionKey>>]
            IN IF call.session[1].permissionsContext = NoContext
                 THEN Throw(signer, "No permissions context found for session")
                 ELSE IF ~isAddress(to)
                   THEN Throw(signer, "InvalidAddressError")
                   ELSE [signer EXCEPT !.pc = "awaitPrepareCalls",
                                       !.steps = Append(@, "prepareCalls"),
                                       !.permissions = PermissionsOf(call.session[1]),
                                       !.prepareArgs = PrepareArgs(call.session[1])]

\* variant: every rejection is reported with the fallback text
ValidateAndPrepare_GenericError(call, to, t) ==
  LET validation == validateSession(call.session, t)
      validated == [call EXCEPT !.validation = <<validation>>,
                                !.steps = Append(@, "validateSession")]
  IN IF ~validation.valid \/ call.session = <<>>
       THEN Throw(validated, "Session invalid")
       ELSE IF call.session[1].permissionsContext = NoContext
         THEN Throw(validated, "No permissions context found for session")
         ELSE LET signer == [validated EXCEPT !.steps = Append(@, "privateKeyToAccountSigner"),
                                                !.signerKey = <<call.session[1].sessionKey>>]
              IN IF ~isAddress(to)
                   THEN Throw(signer, "InvalidAddressError")
                   ELSE [signer EXCEPT !.pc = "awaitPrepareCalls",
                                       !.steps = Append(@, "prepareCalls"),
                                       !.permissions = PermissionsOf(call.session[1]),
                                       !.prepareArgs = PrepareArgs(call.session[1])]

\* lines 361-388: validation, context check, signer, client, prepareCalls(...)
ValidateAndPrepare(call, to, t) ==
  LET validation == validateSession(call.session, t)
      validated == [call EXCEPT !.validation = <<validation>>,
                                !.steps = Append(@, "validateSession")]
  IN IF ~validation.valid \/ call.session = <<>>
       THEN Throw(validated, "Session " \o
                  (IF "reason" \in DOMAIN validation THEN validation.reason ELSE "invalid"))
       ELSE IF call.session[1].permissionsContext = NoContext
         THEN Throw(validated, "No permissions context found for session")
         ELSE LET signer == [validated EXCEPT !.steps = Append(@, "privateKeyToAccountSigner"),
                                                !.signerKey = <<call.session[1].sessionKey>>]
              IN IF ~isAddress(to)
                   THEN Throw(signer, "InvalidAddressError")
                   ELSE [signer EXCEPT !.pc = "awaitPrepareCalls",
                                       !.steps = Append(@, "prepareCalls"),
                                       !.permissions = PermissionsOf(call.session[1]),
                                       !.prepareArgs = PrepareArgs(call.session[1])]

\* variant: a session found expired is flagged revoked in the store
SendTransactionValidate_FlagExpired(c, to) ==
  /\ calls[c].pc = "awaitGetSession"
  /\ calls' = [calls EXCEPT ![c] = ValidateAndPrepare(calls[c], to, now)]
  /\ ret' = NoReturn
  /\ IF calls'[c].validation = <<[valid |-> FALSE, reason |-> "expired"]>>
          /\ calls[c].key \in DOMAIN sessions
       THEN /\ sessions' = [sessions EXCEPT ![calls[c].key].revoked = TRUE]
            /\ persistSessions(keyOrder)
       ELSE UNCHANGED <<sessions, sessionsFile, keyOrder>>
  /\ UNCHANGED <<now, wallets, walletsFile, nextOid, inMemory, signerModule>>

SendTransactionValidate(c, to) ==
  /\ calls[c].pc = "awaitGetSession"
  /\ calls' = [calls EXCEPT ![c] = ValidateAndPrepare(calls[c], to, now)]
  /\ ret' = NoReturn
  /\ UNCHANGED <<now, sessions, wallets, sessionsFile, walletsFile, nextOid,
                 keyOrder, inMemory, signerModule>>

\* lines 388-404: prepareCalls settles; on success signPreparedCalls(...)
PrepareCallsSettles(c, outcome) ==
  /\ calls[c].pc = "awaitPrepareCalls"
  /\ calls' = [calls EXCEPT ![c] =
       IF outcome # "ok"
         THEN Throw(@, outcome)
         ELSE [@ EXCEPT !.pc = "awaitSignPreparedCalls",
                        !.steps = Append(@, "signPreparedCalls"),
                        !.signArgs = <<[signerKey |-> calls[c].signerKey[1]]>>]]
  /\ ret' = NoReturn
  /\ UNCHANGED <<now, sessions, wallets, sessionsFile, walletsFile, nextOid,
                 keyOrder, inMemory, signerModule>>

\* variant: the session is validated again before submission
SignPreparedCallsSettles_Revalidate(c, outcome) ==
  /\ calls[c].pc = "awaitSignPreparedCalls"
  /\ calls' = [calls EXCEPT ![c] =
       IF outcome # "ok"
         THEN Throw(@, outcome)
         ELSE IF ~validateSession(calls[c].session, now).valid
           THEN Throw(@, "Session " \o validateSession(calls[c].session, now).reason)
           ELSE [@ EXCEPT !.pc = "awaitSendPreparedCalls",
                          !.steps = Append(@, "sendPreparedCalls"),
                          !.submitArgs = <<[permissions |-> calls[c].permissions[1]]>>]]
  /\ ret' = NoReturn
  /\ UNCHANGED <<now, sessions, wallets, sessionsFile, walletsFile, nextOid,
                 keyOrder, inMemory, signerModule>>

\* variant: the permissions of the submission are read from the store again
SignPreparedCallsSettles_ReloadScope(c, outcome) ==
  /\ calls[c].pc = "awaitSignPreparedCalls"
  /\ calls' = [calls EXCEPT ![c] =
       IF outcome # "ok"
         THEN Throw(@, outcome)
         ELSE [@ EXCEPT !.pc = "awaitSendPreparedCalls",
                        !.steps = Append(@, "sendPreparedCalls"),
                        !.submitArgs =
                          IF calls[c].key \in DOMAIN sessions
                            THEN <<[permissions |-> PermissionsOf(sessions[calls[c].key])[1]]>>
                            ELSE <<[permissions |-> calls[c].permissions[1]]>>]]
  /\ ret' = NoReturn
  /\ UNCHANGED <<now, sessions, wallets, sessionsFile, walletsFile, nextOid,
                 keyOrder, inMemory, signerModule>>

\* lines 404-410: signPreparedCalls settles; on success sendPreparedCalls(...)
SignPreparedCallsSettles(c, outcome) ==
  /\ calls[c].pc = "awaitSignPreparedCalls"
  /\ calls' = [calls EXCEPT ![c] =
       IF outcome # "ok"
         THEN Throw(@, outcome)
         ELSE [@ EXCEPT !.pc = "awaitSendPreparedCalls",
                        !.steps = Append(@, "sendPreparedCalls"),
                        !.submitArgs = <<[permissions |-> calls[c].permissions[1]]>>]]
  /\ ret' = NoReturn
  /\ UNCHANGED <<now, sessions, wallets, sessionsFile, walletsFile, nextOid,
                 keyOrder, inMemory, signerModule>>

\* variant: a rejected submission is swallowed like a failed wait
AfterSubmit_Swallow(call, outcome) ==
  LET callId == IF outcome.preparedCallIds = <<>> THEN ""
                ELSE outcome.preparedCallIds[1]
  IN IF callId # ""
       THEN [call EXCEPT !.pc = "awaitWaitForCallsStatus", !.callId = callId,
                         !.steps = Append(@, "waitForCallsStatus")]
       ELSE Return(call, callId)

\* variant: the wait is started whether or not an identifier came back
AfterSubmit_WaitWithoutId(call, outcome) ==
  IF outcome.throws # ""
    THEN Throw(call, outcome.throws)
    ELSE LET callId == IF outcome.preparedCallIds = <<>> THEN ""
                       ELSE outcome.preparedCallIds[1]
         IN [call EXCEPT !.pc = "awaitWaitForCallsStatus", !.callId = callId,
                         !.steps = Append(@, "waitForCallsStatus")]

\* lines 407-418: sendPreparedCalls settles; callId, txHash, waitForCallsStatus(...)
AfterSubmit(call, outcome) ==
  IF outcome.throws # ""
    THEN Throw(call, outcome.throws)
    ELSE LET callId == IF outcome.preparedCallIds = <<>> THEN ""
                       ELSE outcome.preparedCallIds[1]
         IN IF callId # ""
              THEN [call EXCEPT !.pc = "awaitWaitForCallsStatus", !.callId = callId,
                                !.steps = Append(@, "waitForCallsStatus")]
              ELSE Return(call, callId)

SendPreparedCallsSettles(c, outcome) ==
  /\ calls[c].pc = "awaitSendPreparedCalls"
  /\ calls' = [calls EXCEPT ![c] = AfterSubmit(@, outcome)]
  /\ ret' = NoReturn
  /\ UNCHANGED <<now, sessions, wallets, sessionsFile, walletsFile, nextOid,
                 keyOrder, inMemory, signerModule>>

\* variant: no catch around the wait
AfterWait_Rethrow(call, outcome) ==
  IF outcome.throws # ""
    THEN Throw(call, outcome.throws)
    ELSE Return(call,
           IF outcome.receipts # <<>> /\ outcome.receipts[1].transactionHash # ""
             THEN outcome.receipts[1].transactionHash
             ELSE call.callId)

\* variant: the hash is taken from the last receipt
AfterWait_LastReceipt(call, outcome) ==
  IF outcome.throws # ""
    THEN Return(call, call.callId)
    ELSE Return(call,
           IF outcome.receipts # <<>>
                /\ outcome.receipts[Len(outcome.receipts)].transactionHash # ""
             THEN outcome.receipts[Len(outcome.receipts)].transactionHash
             ELSE call.callId)

\* lines 418-428: waitForCallsStatus settles; the catch swallows a failure
AfterWait(call, outcome) ==
  IF outcome.throws # ""
    THEN Return(call, call.callId)
    ELSE Return(call,
           IF outcome.receipts # <<>> /\ outcome.receipts[1].transactionHash # ""
             THEN outcome.receipts[1].transactionHash
             ELSE call.callId)

WaitForCallsStatusSettles(c, outcome) ==
  /\ calls[c].pc = "awaitWaitForCallsStatus"
  /\ calls' = [calls EXCEPT ![c] = AfterWait(@, outcome)]
  /\ ret' = NoReturn
  /\ UNCHANGED <<now, sessions, wallets, sessionsFile, walletsFile, nextOid,
                 keyOrder, inMemory, signerModule>>

\* the caller takes the result or the error; the slot is free again
SendTransactionDone(c) ==
  /\ calls[c].pc \in {"returned", "thrown"}
  /\ calls' = [calls EXCEPT ![c] = IdleCall]
  /\ ret' = IF calls[c].pc = "returned"
              THEN [op |-> "sendTransaction", value |-> calls[c].result]
              ELSE [op |-> "sendTransaction", error |-> calls[c].error]
  /\ UNCHANGED <<now, sessions, wallets, sessionsFile, walletsFile, nextOid,
                 keyOrder, inMemory, signerModule>>

(***************************************************************************)
(* useAlchemySigner of the web app.  One action per stretch of code        *)
(* between two awaits; what the page and the signer library answer are     *)
(* inputs.  A signer or promise is named by the number of the doInitialize *)
(* run that created it.                                                    *)
(***************************************************************************)
Callers == {1, 2}

\* an initializeSigner() call that is not running
IdleCaller == [pc |-> "idle", promise |-> 0]

\* signer.inner.getUser(), the alchemy-* parameters of the page URL
SignerEnvs == [existingUser : BOOLEAN, hasAlchemyCallback : BOOLEAN, oauthError : BOOLEAN]

\* part_006:56-157: doInitialize() up to its first await, or to its return
\* (and the finally) when it awaits nothing
DoInitialize(module, env) ==
  LET n == Len(module.promises) + 1
      created == [module EXCEPT !.isInitializing = TRUE,
                                !.error = "",
                                !.signer = <<n>>,
                                !.isAuthenticated = env.existingUser \/ @]
      Pending(what) ==
        [created EXCEPT !.promises =
           Append(@, [state |-> "pending", awaiting |-> what, value |-> 0])]
      Returned(with) ==
        [with EXCEPT !.isInitializing = FALSE,
                     !.promises =
                       Append(@, [state |-> "fulfilled", awaiting |-> "", value |-> n])]
  IN IF ~env.existingUser /\ ~env.hasAlchemyCallback
       THEN Pending("preparePopupOauth")
       ELSE IF env.hasAlchemyCallback /\ ~env.existingUser
         THEN IF env.oauthError
                THEN Returned([created EXCEPT !.error = "Wallet connection failed"])
                ELSE Pending("connected")
         ELSE Returned(created)

\* part_006:20-48: initializeSigner() up to its return or its await
InitializeSigner(k, env) ==
  /\ calls[k].pc = "idle"
  /\ IF signerModule.signer # <<>>
       THEN \* lines 27-36: the existing signer is returned
            /\ signerModule' = [signerModule EXCEPT
                                  !.isAuthenticated = env.existingUser \/ @,
                                  !.isInitializing = FALSE]
            /\ ret' = [op |-> "initializeSigner", caller |-> k,
                       value |-> signerModule.signer[1]]
            /\ UNCHANGED calls
       ELSE IF signerModule.initPromise # <<>>
         THEN \* lines 39-42: the promise in progress is returned
              /\ calls' = [calls EXCEPT ![k] =
                             [pc |-> "awaitLock", promise |-> signerModule.initPromise[1]]]
              /\ ret' = NoReturn
              /\ UNCHANGED signerModule
         ELSE \* lines 45-48
              /\ Len(signerModule.promises) < MaxInits
              /\ signerModule' = [DoInitialize(signerModule, env) EXCEPT
                                    !.initPromise = <<Len(signerModule.promises) + 1>>]
              /\ calls' = [calls EXCEPT ![k] =
                             [pc |-> "awaitInit", promise |-> Len(signerModule.promises) + 1]]
              /\ ret' = NoReturn
  /\ UNCHANGED <<now, sessions, wallets, sessionsFile, walletsFile, nextOid,
                 keyOrder, inMemory>>

\* what the awaited preparePopupOauth() or "connected" wait may do
SettleOutcomes == {"resolved", "rejected"}

\* part_006:117-164: the await of doInitialize run n settles; the run
\* returns the signer, or (OAuth callback timeout) resets it and throws
DoInitializeSettles(n, outcome) ==
  /\ n \in 1 .. Len(signerModule.promises)
  /\ signerModule.promises[n].state = "pending"
  /\ signerModule' =
       IF signerModule.promises[n].awaiting = "connected" /\ outcome = "rejected"
         THEN [signerModule EXCEPT
                 !.error = "OAuth callback timeout",
                 !.signer = <<>>,
                 !.isInitializing = FALSE,
                 !.promises[n] = [state |-> "rejected", awaiting |-> "", value |-> 0]]
         ELSE [signerModule EXCEPT
                 !.isAuthenticated =
                   signerModule.promises[n].awaiting = "connected" \/ @,
                 !.isInitializing = FALSE,
                 !.promises[n] = [state |-> "fulfilled", awaiting |-> "",
                                  value |-> signerModule.signer[1]]]
  /\ ret' = NoReturn
  /\ UNCHANGED <<now, sessions, wallets, sessionsFile, walletsFile, nextOid, calls,
                 keyOrder, inMemory>>

\* part_006:41, 47-53: the promise an initializeSigner() call waits for has
\* settled and the call completes
InitializeSignerResumes(k) ==
  LET promise == signerModule.promises[calls[k].promise]
  IN /\ calls[k].pc \in {"awaitInit", "awaitLock"}
     /\ promise.state # "pending"
     /\ calls' = [calls EXCEPT ![k] = IdleCaller]
     /\ IF promise.state = "fulfilled"
          THEN /\ ret' = [op |-> "initializeSigner", caller |-> k, value |-> promise.value]
               /\ UNCHANGED signerModule
          ELSE /\ ret' = [op |-> "initializeSigner", caller |-> k,
                          error |-> "OAuth callback timeout"]
               /\ signerModule' =
                    IF calls[k].pc = "awaitInit"
                      THEN [signerModule EXCEPT !.initPromise = <<>>]
                      ELSE signerModule
     /\ UNCHANGED <<now, sessions, wallets, sessionsFile, walletsFile, nextOid,
                    keyOrder, inMemory>>

(***************************************************************************)
(* The system.                                                             *)
(***************************************************************************)
\* the session drafts a caller may hand to storeSession
Drafts(ids, contexts) ==
  [sessionId : ids, sessionKey : SessionKeys,
   sessionKeyAddress : {Undefined, "0xab1", "0xAb1", "0xcd2"},
   accountAddress : {"0xacc"},
   signature : {"0xsig"},
   permissionsContext : contexts,
   permissions : {"native-token-transfer"},
   expiresAt : ExpiryChoices]

Init ==
  /\ now = 0
  /\ sessions = EmptyMap
  /\ wallets = EmptyMap
  /\ sessionsFile = EmptyMap
  /\ walletsFile = EmptyMap
  /\ nextOid = 1
  /\ calls = [c \in Calls |-> IdleCall]
  /\ ret = NoReturn
  /\ keyOrder = NoKeys
  /\ inMemory = EmptyStore
  /\ signerModule = ModuleLoaded

\* The delegated-send pipeline of one user's wallets, with the session
\* operations and the clock it depends on.
SendUsers == {"u"}
SendDrafts == Drafts({"s1"}, PermissionContexts)

NextSend ==
  \/ Tick
  \/ \E u \in SendUsers, d \in SendDrafts, i \in WalletIndexes : StoreSession(u, d, i)
  \/ \E u \in SendUsers, i \in WalletIndexes : RevokeSession(u, i)
  \/ \E c \in Calls, u \in SendUsers, i \in WalletIndexes : SendTransactionStart(c, u, i)
  \/ \E c \in Calls, to \in TxTargets : SendTransactionValidate(c, to)
  \/ \E c \in Calls, o \in PrepareOutcomes : PrepareCallsSettles(c, o)
  \/ \E c \in Calls, o \in SignOutcomes : SignPreparedCallsSettles(c, o)
  \/ \E c \in Calls, o \in SubmitOutcomes : SendPreparedCallsSettles(c, o)
  \/ \E c \in Calls, o \in WaitOutcomes : WaitForCallsStatusSettles(c, o)
  \/ \E c \in Calls : SendTransactionDone(c)

SpecSend == Init /\ [][NextSend]_vars

\* The wallet and session operations of the service for all users, with
\* no send in flight.
StoreDrafts == Drafts(SessionIds, {"0x00ctx"})

NextStore ==
  \/ \E u \in Users, a \in {"0xacc", BadAddress} : SaveWallet(u, a, NoIndex)
  \/ \E u \in Users, i \in WalletIndexes : GetWallet(u, i)
  \/ \E u \in Users, d \in StoreDrafts, i \in WalletIndexes : StoreSession(u, d, i)
  \/ \E u \in Users, i \in WalletIndexes : GetSession(u, i)
  \/ \E u \in Users : GetSessions(u)
  \/ \E u \in Users, i \in WalletIndexes : ValidateUserSession(u, i)
  \/ \E u \in Users, i \in WalletIndexes : RevokeSession(u, i)

SpecStore == Init /\ [][NextStore]_vars

\* The wallet directory: wallets saved at indexes 0..MaxDirIndex for all
\* users and the list operations over them.
DirAddresses == {"0xab1", "0xcd2"}

NextWallets ==
  \/ \E u \in Users, a \in DirAddresses, i \in DirIndexes : SaveWallet(u, a, i)
  \/ \E u \in Users : GetWallets(u)
  \/ \E u \in Users : GetNextWalletIndex(u)

SpecWallets == Init /\ [][NextWallets]_vars

\* Permissions contexts as grantPermissions returns them, 0x followed by a
\* mode byte, the 16 bytes of the session id and the signature, and the
\* sessions the server is asked to store with them.
ModeBytes == {<<"0", "0">>, <<"f", "f">>}
SigBytes == {<<"d", "e">>, <<"9", "0">>}
SessionIdBytes ==
  {<<"a">> \o [n \in 1 .. 30 |-> "b"] \o <<"c">>,
   <<"1">> \o [n \in 1 .. 30 |-> "0"] \o <<"2">>,
   [n \in 1 .. 32 |-> "f"]}

RECURSIVE Concat(_)
Concat(seqs) == IF seqs = <<>> THEN <<>> ELSE Head(seqs) \o Concat(Tail(seqs))

Signatures ==
  {Concat(bytes) : bytes \in UNION {[1 .. n -> SigBytes] : n \in 0 .. MaxSigBytes}}

BuildContext(mode, sid, sig) == <<"0", "x">> \o mode \o sid \o sig

Contexts ==
  {BuildContext(m, sid, sig) : m \in ModeBytes, sid \in SessionIdBytes, sig \in Signatures}

ContextDrafts ==
  [sessionId : {<<"0", "x">> \o sid : sid \in SessionIdBytes},
   sessionKey : SessionKeys,
   sessionKeyAddress : {"0xab1"},
   accountAddress : {"0xacc"},
   permissionsContext :
     {BuildContext(<<"0", "0">>, sid, <<"d", "e">>) : sid \in SessionIdBytes},
   expiresAt : ExpiryChoices]

NextContext ==
  \/ \E context \in Contexts : ExtractSessionId(context)
  \/ \E context \in Contexts : ExtractSignature(context)
  \/ \E u \in SendUsers, d \in ContextDrafts : StoreSession(u, d, NoIndex)
  \/ \E u \in SendUsers : GetSession(u, NoIndex)

SpecContext == Init /\ [][NextContext]_vars

\* The expiry helpers, called at some instant with some options.
DAY_H == 24
ExpiryNows == {Zero, Num(0, 1), Num(473000, 1234567)}
ExplicitInstants == {Zero, Num(0, 1), Num(473000, 0), MAX_EXPIRY_MS}
ExpiryHours == {0, 1, 24, 25}
ExpiryOptions ==
  [expiresAt : {<<>>} \cup {<<T>> : T \in ExplicitInstants},
   expiryHours : {<<>>} \cup {<<h>> : h \in ExpiryHours},
   walletIndex : {NoIndex, 1}]

\* remaining durations around each boundary of formatExpiry
Remainings ==
  {Num(d * DAY_H + h, ms) :
     d \in {0, 1, 30, 31, 365, 366, 731},
     h \in {0, 1, 23},
     ms \in {0, 1, 59999, 60000, HOUR_MS - 1}}
    \cup {Num(0, -1), Num(-DAY_H, 0)}
NearSentinel ==
  {Minus(MAX_EXPIRY_MS, Num(0, ms)) : ms \in {0, 1, 999, 1000, 1001, HOUR_MS}}

InitExpiry ==
  /\ now \in ExpiryNows
  /\ sessions = EmptyMap
  /\ wallets = EmptyMap
  /\ sessionsFile = EmptyMap
  /\ walletsFile = EmptyMap
  /\ nextOid = 1
  /\ calls = [c \in Calls |-> IdleCall]
  /\ ret = NoReturn
  /\ keyOrder = NoKeys
  /\ inMemory = EmptyStore
  /\ signerModule = ModuleLoaded

NextExpiry ==
  \/ \E options \in ExpiryOptions : CalculateExpiry(options)
  \/ \E d \in Remainings : FormatExpiry(Plus(now, d))
  \/ \E T \in NearSentinel : FormatExpiry(T)

SpecExpiry == InitExpiry /\ [][NextExpiry]_vars

\* Wallet creation through POST /api/wallet: requests that leave the index
\* to the server, handled concurrently, and requests that name it.
Requests == {1, 2}

InitAlloc ==
  /\ now = 0
  /\ sessions = EmptyMap
  /\ wallets = EmptyMap
  /\ sessionsFile = EmptyMap
  /\ walletsFile = EmptyMap
  /\ nextOid = 1
  /\ calls = [r \in Requests |-> IdleRequest]
  /\ ret = NoReturn
  /\ keyOrder = NoKeys
  /\ inMemory = EmptyStore
  /\ signerModule = ModuleLoaded

NextAlloc ==
  \/ \E r \in Requests, u \in Users : PostWalletStart(r, u, "0xab1")
  \/ \E r \in Requests : PostWalletSave(r)
  \/ \E u \in Users, i \in 1 .. MaxDirIndex : SaveWallet(u, "0xcd2", i)

SpecAlloc == InitAlloc /\ [][NextAlloc]_vars

\* One sendTransaction call with sessions of different keys, accounts and
\* permissions contexts stored and replaced at its storage key meanwhile.
ScopeDrafts ==
  {d \in [sessionId : {"s1"}, sessionKey : {"k1", "k2"},
          sessionKeyAddress : {"0xab1", "0xcd2"},
          accountAddress : {"0xacc", "0xab1"},
          permissionsContext : {"0x00ctx", "0x01ctx"},
          expiresAt : ExpiryChoices] :
     toLowerCase(privateKeyToAccount(d.sessionKey)) = d.sessionKeyAddress}

NextScope ==
  \/ \E u \in SendUsers, d \in ScopeDrafts : StoreSession(u, d, NoIndex)
  \/ \E u \in SendUsers : RevokeSession(u, NoIndex)
  \/ \E c \in Calls, u \in SendUsers : SendTransactionStart(c, u, NoIndex)
  \/ \E c \in Calls : SendTransactionValidate(c, "0xacc")
  \/ \E c \in Calls, o \in PrepareOutcomes : PrepareCallsSettles(c, o)
  \/ \E c \in Calls, o \in SignOutcomes : SignPreparedCallsSettles(c, o)
  \/ \E c \in Calls, o \in SubmitOutcomes : SendPreparedCallsSettles(c, o)
  \/ \E c \in Calls, o \in WaitOutcomes : WaitForCallsStatusSettles(c, o)
  \/ \E c \in Calls : SendTransactionDone(c)

SpecScope == Init /\ [][NextScope]_vars

\* The session endpoint: sessions of all users stored, revoked and read
\* back through GET /api/session.
InfoDrafts ==
  [sessionId : SessionIds, sessionKey : SessionKeys,
   sessionKeyAddress : {"0xab1", "0xcd2"},
   accountAddress : {"0xacc"},
   signature : {"0xsig"},
   permissionsContext : {"0x00ctx"},
   permissions : {"native-token-transfer"},
   expiresAt : ExpiryChoices]

NextInfo ==
  \/ \E u \in Users, d \in InfoDrafts, i \in WalletIndexes : StoreSession(u, d, i)
  \/ \E u \in Users, i \in WalletIndexes : RevokeSession(u, i)
  \/ \E u \in Users, q \in Queries : GetSessionRoute(u, q)

SpecInfo == Init /\ [][NextInfo]_vars

\* The storage contract: the same calls made on a FileStorage and on an
\* InMemoryStorage that both start empty.
StoredSessions ==
  [oid : {0}, sessionId : SessionIds, sessionKey : SessionKeys,
   sessionKeyAddress : {"0xAb1"}, accountAddress : {"0xAcc"}, signature : {"0xsig"},
   permissionsContext : {"0x00ctx"}, permissions : {"native-token-transfer"},
   expiresAt : ExpiryChoices, revoked : {FALSE}, createdAt : {0}]

StoredWallets ==
  [accountAddress : {"0xAb1"}, accountId : {Undefined, "1"}, createdAt : {0}]

NextContract ==
  \/ \E u \in StorageUsers, o \in StoredSessions, i \in WalletIndexes :
       Contract_saveSession(u, o, i)
  \/ \E u \in StorageUsers, i \in WalletIndexes : Contract_getSession(u, i)
  \/ \E u \in StorageUsers : Contract_getSessions(u)
  \/ \E u \in StorageUsers, i \in WalletIndexes : Contract_revokeSession(u, i)
  \/ \E u \in StorageUsers, i \in WalletIndexes : Contract_deleteSession(u, i)
  \/ \E u \in StorageUsers, w \in StoredWallets, i \in WalletIndexes :
       Contract_saveWallet(u, w, i)
  \/ \E u \in StorageUsers, i \in WalletIndexes : Contract_getWallet(u, i)
  \/ \E u \in StorageUsers, i \in WalletIndexes : Contract_deleteWallet(u, i)

SpecContract == Init /\ [][NextContract]_vars

\* The file-backed store over restarts of the server: the mutations of the
\* contract and the construction of a new instance from the files.
NextFile ==
  \/ \E u \in StorageUsers, o \in StoredSessions, i \in WalletIndexes :
       Contract_saveSession(u, o, i)
  \/ \E u \in StorageUsers, i \in WalletIndexes : Contract_revokeSession(u, i)
  \/ \E u \in StorageUsers, i \in WalletIndexes : Contract_deleteSession(u, i)
  \/ \E u \in StorageUsers, w \in StoredWallets, i \in WalletIndexes :
       Contract_saveWallet(u, w, i)
  \/ \E u \in StorageUsers, i \in WalletIndexes : Contract_deleteWallet(u, i)
  \/ Restart

SpecFile == Init /\ [][NextFile]_vars

\* The web signer: initializeSigner() called from several places of the app
\* while the page loads.
InitSigner ==
  /\ now = 0
  /\ sessions = EmptyMap
  /\ wallets = EmptyMap
  /\ sessionsFile = EmptyMap
  /\ walletsFile = EmptyMap
  /\ nextOid = 1
  /\ calls = [k \in Callers |-> IdleCaller]
  /\ ret = NoReturn
  /\ keyOrder = NoKeys
  /\ inMemory = EmptyStore
  /\ signerModule = ModuleLoaded

NextSigner ==
  \/ \E k \in Callers, env \in SignerEnvs : InitializeSigner(k, env)
  \/ \E n \in 1 .. MaxInits, o \in SettleOutcomes : DoInitializeSettles(n, o)
  \/ \E k \in Callers : InitializeSignerResumes(k)

SpecSigner == InitSigner /\ [][NextSigner]_vars

(***************************************************************************)
(* Properties.                                                             *)
(***************************************************************************)
Has(steps, name) == \E n \in 1 .. Len(steps) : steps[n] = name

\* the step in which call c runs validateSession (lines 361-388)
ValidateStep(c) ==
  calls[c].pc = "awaitGetSession" /\ calls'[c].pc # "awaitGetSession"

Rejected(call) == call.validation # <<>> /\ ~call.validation[1].valid

\* C1: a sendTransaction whose session validateSession rejects throws
\* "Session <reason>" and does nothing else: after getSession and
\* validateSession no signer is created and prepareCalls, signPreparedCalls,
\* sendPreparedCalls and waitForCallsStatus are never invoked.
C1_RejectedDoesNoWork ==
  \A c \in Calls :
    Rejected(calls[c]) =>
      /\ calls[c].pc = "thrown"
      /\ calls[c].error = "Session " \o calls[c].validation[1].reason
      /\ calls[c].steps = <<"getSession", "validateSession">>
      /\ calls[c].result = <<>>

C1_Witness ==
  \E c \in Calls :
    /\ calls[c].pc = "thrown"
    /\ calls[c].error = "Session expired"
    /\ calls[c].session # <<>>
    /\ now > calls[c].session[1].expiresAt

\* C2 as claimed: validateSession(s) is valid iff s is not null, s is not
\* revoked and now < s.expiresAt, so that s is expired at now = expiresAt.
C2_ValidIffBeforeExpiry ==
  [][\A c \in Calls :
       ValidateStep(c) =>
         (calls'[c].validation[1].valid <=>
            /\ calls[c].session # <<>>
            /\ ~calls[c].session[1].revoked
            /\ now < calls[c].session[1].expiresAt)]_vars

\* C2 amended: validateSession(s) is valid iff s is not null, s is not
\* revoked and now <= s.expiresAt; s is expired only once now > s.expiresAt,
\* and is still valid at now = s.expiresAt.
C2_ValidIffNotAfterExpiry ==
  [][\A c \in Calls :
       ValidateStep(c) =>
         (calls'[c].validation[1].valid <=>
            /\ calls[c].session # <<>>
            /\ ~calls[c].session[1].revoked
            /\ now <= calls[c].session[1].expiresAt)]_vars

C2_Witness ==
  \E c \in Calls :
    /\ calls[c].pc = "awaitPrepareCalls"
    /\ calls[c].validation = <<[valid |-> TRUE]>>
    /\ now = calls[c].session[1].expiresAt

\* C3: the reason of validateSession follows not_found > revoked > expired:
\* null gives not_found; a revoked session gives revoked even when it is
\* past expiresAt; expired is given only for a non-null, non-revoked
\* session; a valid result carries no reason.
C3_ReasonPrecedence ==
  [][\A c \in Calls :
       ValidateStep(c) =>
         LET session == calls[c].session
             v == calls'[c].validation[1]
         IN /\ session = <<>> => v = [valid |-> FALSE, reason |-> "not_found"]
            /\ (session # <<>> /\ session[1].revoked)
                 => v = [valid |-> FALSE, reason |-> "revoked"]
            /\ ("reason" \in DOMAIN v /\ v.reason = "expired")
                 => (session # <<>> /\ ~session[1].revoked)
            /\ v.valid => DOMAIN v = {"valid"}
            /\ ~v.valid => v.reason \in {"not_found", "revoked", "expired"}]_vars

C3_Witness ==
  \E c \in Calls :
    /\ calls[c].pc = "thrown"
    /\ calls[c].validation = <<[valid |-> FALSE, reason |-> "revoked"]>>
    /\ now > calls[c].session[1].expiresAt

\* C4: when the submission succeeded and waitForCallsStatus throws (failure
\* or timeout), sendTransaction returns {success: true, transactionHash:
\* callId} with the callId of the submission, and throws nothing.
C4_WaitFailureIsSwallowed ==
  [][\A c \in Calls, o \in WaitOutcomes :
       (o.throws # "" /\ WaitForCallsStatusSettles(c, o)) =>
         /\ calls'[c].pc = "returned"
         /\ calls[c].callId = "call1"
         /\ calls'[c].result = <<[success |-> TRUE, transactionHash |-> calls[c].callId]>>
         /\ calls'[c].error = ""]_vars

C4_Witness ==
  \E c \in Calls :
    /\ calls[c].pc = "returned"
    /\ Has(calls[c].steps, "waitForCallsStatus")
    /\ calls[c].result = <<[success |-> TRUE, transactionHash |-> "call1"]>>

\* C5: a failure of prepareCalls, signPreparedCalls or sendPreparedCalls
\* makes sendTransaction throw that very cause; the call invokes no further
\* step, and a call whose submission failed never returns a result.
C5_PipelineFailureIsFatal ==
  [][\A c \in Calls :
       /\ \A o \in PrepareOutcomes :
            (o # "ok" /\ PrepareCallsSettles(c, o)) =>
              calls'[c] = [calls[c] EXCEPT !.pc = "thrown", !.error = o]
       /\ \A o \in SignOutcomes :
            (o # "ok" /\ SignPreparedCallsSettles(c, o)) =>
              calls'[c] = [calls[c] EXCEPT !.pc = "thrown", !.error = o]
       /\ \A o \in SubmitOutcomes :
            (o.throws # "" /\ SendPreparedCallsSettles(c, o)) =>
              calls'[c] = [calls[c] EXCEPT !.pc = "thrown", !.error = o.throws]
       /\ calls[c].pc = "thrown" =>
            /\ calls[c].result = <<>>
            /\ \/ calls'[c] = IdleCall
               \/ /\ calls'[c].pc = "thrown"
                  /\ calls'[c].steps = calls[c].steps
                  /\ calls'[c].error = calls[c].error]_vars

C5_Witness ==
  \E c \in Calls :
    /\ calls[c].pc = "thrown"
    /\ calls[c].error = "submit_rejected"
    /\ calls[c].steps[Len(calls[c].steps)] = "sendPreparedCalls"

\* C6: revocation is instant.  revokeSession on an existing session leaves
\* it revoked; it stays revoked for as long as the same session object is
\* stored at the key; a sendTransaction that starts while it is so loads
\* that revoked session, and such a call throws "Session revoked" without
\* ever invoking prepareCalls or sendPreparedCalls.
C6_RevocationIsInstant ==
  [][/\ \A u \in SendUsers, i \in WalletIndexes :
          LET key == buildStorageKey(u, i)
          IN (key \in DOMAIN sessions /\ RevokeSession(u, i)) => sessions'[key].revoked
     /\ \A key \in DOMAIN sessions :
          (/\ sessions[key].revoked
           /\ key \in DOMAIN sessions'
           /\ sessions'[key].oid = sessions[key].oid) => sessions'[key].revoked
     /\ \A c \in Calls :
          /\ (/\ calls[c].pc = "idle"
              /\ calls'[c].pc = "awaitGetSession"
              /\ calls'[c].key \in DOMAIN sessions
              /\ sessions[calls'[c].key].revoked)
               => (calls'[c].session # <<>> /\ calls'[c].session[1].revoked)
          /\ (/\ calls[c].pc = "awaitGetSession"
              /\ calls[c].session # <<>>
              /\ calls[c].session[1].revoked)
               => /\ calls'[c].pc \in {"awaitGetSession", "thrown"}
                  /\ calls'[c].pc = "thrown" => calls'[c].error = "Session revoked"
                  /\ ~Has(calls'[c].steps, "prepareCalls")
                  /\ ~Has(calls'[c].steps, "sendPreparedCalls")]_vars

C6_Witness ==
  \E c \in Calls :
    /\ calls[c].pc = "thrown"
    /\ calls[c].error = "Session revoked"
    /\ calls[c].key \in DOMAIN sessions
    /\ sessions[calls[c].key].revoked
    /\ calls[c].session = <<sessions[calls[c].key]>>

\* C7: for every key and sessionId, once the session with that sessionId
\* stored at that key is revoked, no operation leaves a session with that
\* sessionId stored at that key with revoked = false.
C7_RevokedNeverReset ==
  [][\A key \in DOMAIN sessions :
       (/\ sessions[key].revoked
        /\ key \in DOMAIN sessions'
        /\ sessions'[key].sessionId = sessions[key].sessionId)
         => sessions'[key].revoked]_vars

\* C8: revokeSession on a key that holds no session returns without error,
\* creates no record, and leaves the session store, the wallet store and
\* both files exactly as they were.
C8_RevokeAbsentIsNoOp ==
  [][\A u \in Users, i \in WalletIndexes :
       (buildStorageKey(u, i) \notin DOMAIN sessions /\ RevokeSession(u, i)) =>
         /\ UNCHANGED <<sessions, wallets, sessionsFile, walletsFile>>
         /\ ret' = [op |-> "revokeSession", error |-> ""]]_vars

C8_Witness ==
  /\ ret = [op |-> "revokeSession", error |-> ""]
  /\ DOMAIN sessions = {}
  /\ DOMAIN sessionsFile = {}
  /\ DOMAIN wallets # {}

\* C9: revokeSession is idempotent.  Every revokeSession(u, i) returns
\* without error and leaves the key absent as before or its session
\* revoked, and from any such state (the state a first call leaves behind)
\* a further revokeSession(u, i) changes nothing in the stores.
C9_RevokeIsIdempotent ==
  [][\A u \in Users, i \in WalletIndexes :
       LET key == buildStorageKey(u, i)
       IN RevokeSession(u, i) =>
            /\ ret' = [op |-> "revokeSession", error |-> ""]
            /\ (key \in DOMAIN sessions') = (key \in DOMAIN sessions)
            /\ key \in DOMAIN sessions' => sessions'[key].revoked
            /\ (key \notin DOMAIN sessions \/ sessions[key].revoked)
                 => UNCHANGED <<sessions, wallets, sessionsFile, walletsFile>>]_vars

C9_Witness ==
  /\ ret = [op |-> "revokeSession", error |-> ""]
  /\ \E key \in DOMAIN sessions :
       /\ sessions[key].revoked
       /\ sessionsFile[key].revoked

\* C10: revokeSession(u, i) changes at most the revoked flag of the session
\* at (u, i): the session at every other wallet index of u, the sessions of
\* every other user and all wallet records are unchanged.
C10_RevokeTouchesOneSession ==
  [][\A u \in Users, i \in WalletIndexes :
       RevokeSession(u, i) =>
         /\ wallets' = wallets
         /\ \A u2 \in Users, j \in 0 .. MaxIndex :
              (u2 # u \/ j # (IF i = NoIndex THEN 0 ELSE i)) =>
                LET key2 == buildStorageKey(u2, j)
                IN /\ (key2 \in DOMAIN sessions') = (key2 \in DOMAIN sessions)
                   /\ key2 \in DOMAIN sessions => sessions'[key2] = sessions[key2]]_vars

\* a draft whose claimed sessionKeyAddress is present and differs, ignoring
\* case, from the address derived from its sessionKey
Mismatched(session) ==
  /\ session.sessionKeyAddress # Undefined
  /\ toLowerCase(session.sessionKeyAddress)
       # toLowerCase(privateKeyToAccount(session.sessionKey))

\* C11: storeSession of a draft whose sessionKeyAddress differs, ignoring
\* case, from the address derived from its sessionKey fails with the
\* address-mismatch error; nothing is persisted and every session stored
\* before, the one at the same key included, is left as it was.
C11_MismatchStoresNothing ==
  [][\A u \in Users, d \in StoreDrafts, i \in WalletIndexes :
       (Mismatched(d) /\ StoreSession(u, d, i)) =>
         /\ ret' = [op |-> "storeSession", error |-> "Session key address mismatch"]
         /\ UNCHANGED <<sessions, sessionsFile, wallets, walletsFile>>]_vars

C11_Witness ==
  /\ ret = [op |-> "storeSession", error |-> "Session key address mismatch"]
  /\ DOMAIN sessions # {}
  /\ sessionsFile = Serialize(sessions)

\* C12 as claimed: storeSession of a draft that carries no sessionKeyAddress
\* succeeds, and the stored session's sessionKeyAddress is the address
\* derived from the draft's sessionKey.
C12_AbsentAddressIsDerived ==
  [][\A u \in Users, d \in StoreDrafts, i \in WalletIndexes :
       (d.sessionKeyAddress = Undefined /\ StoreSession(u, d, i)) =>
         /\ ret' = [op |-> "storeSession", error |-> ""]
         /\ buildStorageKey(u, i) \in DOMAIN sessions'
         /\ sessions'[buildStorageKey(u, i)].sessionKeyAddress
              = privateKeyToAccount(d.sessionKey)]_vars

\* C13: a sendTransaction whose session passes validateSession but carries
\* no permissionsContext throws "No permissions context found for session"
\* right after validation: no signer is made and prepareCalls,
\* signPreparedCalls and sendPreparedCalls are never invoked.
C13_NoContextFailsBeforeSigner ==
  \A c \in Calls :
    (/\ calls[c].validation = <<[valid |-> TRUE]>>
     /\ calls[c].session[1].permissionsContext = NoContext) =>
      /\ calls[c].pc = "thrown"
      /\ calls[c].error = "No permissions context found for session"
      /\ ~Has(calls[c].steps, "privateKeyToAccountSigner")
      /\ ~Has(calls[c].steps, "prepareCalls")
      /\ ~Has(calls[c].steps, "signPreparedCalls")
      /\ ~Has(calls[c].steps, "sendPreparedCalls")
      /\ calls[c].result = <<>>

C13_Witness ==
  \E c \in Calls :
    /\ calls[c].validation = <<[valid |-> TRUE]>>
    /\ calls[c].session[1].permissionsContext = NoContext
    /\ calls[c].error = "No permissions context found for session"

\* C14: the error of a sendTransaction rejected by validation names the
\* reason: a missing session gives "Session not_found", a revoked one
\* "Session revoked", an unrevoked one past expiresAt "Session expired";
\* the three texts differ pairwise, and the text is what the caller gets.
C14_ErrorNamesTheReason ==
  [][\A c \in Calls :
       /\ ValidateStep(c) =>
            LET session == calls[c].session
                error == calls'[c].error
            IN /\ (error = "Session not_found") <=> (session = <<>>)
               /\ (error = "Session revoked") <=>
                    (session # <<>> /\ session[1].revoked)
               /\ (error = "Session expired") <=>
                    (/\ session # <<>>
                     /\ ~session[1].revoked
                     /\ now > session[1].expiresAt)
               /\ Rejected(calls'[c]) =>
                    /\ error \in {"Session not_found", "Session revoked", "Session expired"}
                    /\ error = "Session " \o calls'[c].validation[1].reason
       /\ (calls[c].pc = "thrown" /\ calls'[c].pc = "idle") =>
            ret' = [op |-> "sendTransaction", error |-> calls[c].error]]_vars

C14_Witness ==
  /\ ret = [op |-> "sendTransaction", error |-> "Session revoked"]
  /\ \E key \in DOMAIN sessions : sessions[key].revoked

\* the decimal numeral of n
Decimal(n) == <<"1", "2", "3", "4", "5", "6", "7", "8", "9">>[n]

\* the indexes n of 0..MaxDirIndex with a record at buildStorageKey(userId, n)
IndexesAt(m, userId) ==
  {n \in 0 .. MaxDirIndex : buildStorageKey(userId, n) \in DOMAIN m}

\* C16: buildStorageKey returns the bare userId when the index is undefined
\* or 0 and otherwise userId, ":" and the decimal numeral of the index, so
\* that buildStorageKey(u) = buildStorageKey(u, 0) = u and
\* buildStorageKey(u, 3) = "u:3"; saveWallet writes at exactly that key.
C16_KeyFormat ==
  [][/\ buildStorageKey("u", NoIndex) = "u"
     /\ buildStorageKey("u", 0) = "u"
     /\ buildStorageKey("u", 3) = "u:3"
     /\ \A u \in Users, a \in DirAddresses, i \in DirIndexes :
          (SaveWallet(u, a, i) /\ ret'.error = "") =>
            DOMAIN wallets' = DOMAIN wallets \cup
              {IF i = NoIndex \/ i = 0 THEN u ELSE u \o ":" \o Decimal(i)}]_vars

C16_Witness ==
  /\ ret = [op |-> "saveWallet", error |-> ""]
  /\ DOMAIN wallets = {"u", "u:3", "u:1:2"}

\* C17 as claimed: reading a key back inverts buildStorageKey: for every
\* user u and index n, the record at buildStorageKey(u, n) is selected for
\* u, is read as index n (0 for the bare key), and is selected for no
\* other user.
C17_ParseInvertsBuild ==
  \A u \in Users, n \in 0 .. MaxDirIndex :
    LET key == buildStorageKey(u, n)
    IN key \in DOMAIN wallets =>
         /\ key \in KeysOf(wallets, u)
         /\ KeyIndex(key, u) = n
         /\ \A u2 \in Users \ {u} : key \notin KeysOf(wallets, u2)

\* the value of a list operation: one entry per index at which the user
\* has a record, and no other entry
OnePerIndex(m, call) ==
  /\ Len(call.value) = Cardinality(IndexesAt(m, call.userId))
  /\ \A n \in IndexesAt(m, call.userId) :
       \E k \in DOMAIN call.value :
         \A f \in DOMAIN m[buildStorageKey(call.userId, n)] :
           call.value[k][f] = m[buildStorageKey(call.userId, n)][f]

\* C18 as claimed: getSessions(u) and getWallets(u) return the records
\* whose key is u or starts with u + ":" and no others, which after saves
\* at indexes I for u is exactly one record per index of I.
C18_ListIsOnePerIndex ==
  /\ ret.op = "getSessions" =>
       /\ Len(ret.value) = Cardinality(KeysOf(sessions, ret.userId))
       /\ OnePerIndex(sessions, ret)
  /\ ret.op = "getWallets" =>
       /\ Len(ret.value) = Cardinality(KeysOf(wallets, ret.userId))
       /\ OnePerIndex(wallets, ret)

\* C19 as claimed: getNextWalletIndex(u) is 0 when u has no wallet and
\* otherwise one more than the largest index at which u has a wallet; u has
\* no wallet at the index returned.
C19_NextIndexIsFree ==
  ret.op = "getNextWalletIndex" =>
    LET I == IndexesAt(wallets, ret.userId)
    IN /\ ret.value = IF I = {} THEN 0 ELSE Max(I) + 1
       /\ buildStorageKey(ret.userId, ret.value) \notin DOMAIN wallets

\* C20 as claimed: getWallets(u) returns all wallets of u, each tagged with
\* the index it was saved under, in strictly ascending order of walletIndex.
C20_WalletsTaggedAndSorted ==
  ret.op = "getWallets" =>
    /\ \A a, b \in DOMAIN ret.value :
         a < b => ret.value[a].walletIndex < ret.value[b].walletIndex
    /\ \A k \in DOMAIN ret.value :
         LET key == buildStorageKey(ret.userId, ret.value[k].walletIndex)
         IN /\ key \in DOMAIN wallets
            /\ ret.value[k].accountAddress = wallets[key].accountAddress
    /\ \A n \in IndexesAt(wallets, ret.userId) :
         \E k \in DOMAIN ret.value : ret.value[k].walletIndex = n

\* C21 as claimed: every stored session has an expiresAt that was strictly
\* after the instant at which it was stored, or that is MAX_EXPIRY_MS.
C21_StoredExpiryWasFuture ==
  \A key \in DOMAIN sessions :
    \/ sessions[key].expiresAt > sessions[key].createdAt
    \/ Num(0, sessions[key].expiresAt) = MAX_EXPIRY_MS

\* C22 as claimed: the session id read from the permissionsContext of a
\* stored session by extractSessionId is the sessionId of that session.
C22_ContextDecodesToSessionId ==
  \A key \in DOMAIN sessions :
    extractSessionId(sessions[key].permissionsContext) = sessions[key].sessionId

\* C25: extractSessionId and extractSignature invert the construction of a
\* context: of 0x, mode byte m, 16-byte session id sid and signature sig
\* they return 0x sid and 0x sig; the value depends on the context alone
\* and neither changes any stored state.
C25_ExtractInvertsBuild ==
  [][ret'.op \in {"extractSessionId", "extractSignature"} =>
       /\ UNCHANGED <<now, sessions, wallets, sessionsFile, walletsFile, nextOid, calls>>
       /\ \A m \in ModeBytes, sid \in SessionIdBytes, sig \in Signatures :
            ret'.context = BuildContext(m, sid, sig) =>
              ret'.value = <<"0", "x">> \o
                (IF ret'.op = "extractSessionId" THEN sid ELSE sig)]_vars

C25_Witness ==
  /\ ret.op = "extractSignature"
  /\ ret.context[3] = "f"
  /\ ret.value = <<"0", "x", "d", "e", "9", "0">>
  /\ DOMAIN sessions # {}

\* C23 as claimed: calculateExpiry of options carrying an expiresAt T
\* returns T, whatever T and the other fields are.
C23_ExplicitExpiryWins ==
  (ret.op = "calculateExpiry" /\ ret.options.expiresAt # <<>>) =>
    ret.value = ret.options.expiresAt[1]

\* C24: without expiresAt, calculateExpiry takes hours = expiryHours, or 24
\* when expiryHours is absent; for hours = 0 it returns MAX_EXPIRY_MS =
\* 4294967295000 at any call time, otherwise now + hours * 3600000.
C24_HoursOrSentinel ==
  (ret.op = "calculateExpiry" /\ ret.options.expiresAt = <<>>) =>
    LET hours == IF ret.options.expiryHours = <<>> THEN 24 ELSE ret.options.expiryHours[1]
    IN ret.value = IF hours = 0
                     THEN [h |-> 1193046, ms |-> 1695000]
                     ELSE [h |-> now.h + hours, ms |-> now.ms]

C24_Witness ==
  /\ ret.op = "calculateExpiry"
  /\ ret.options.expiresAt = <<>>
  /\ ret.options.expiryHours = <<0>>
  /\ ret.value = MAX_EXPIRY_MS
  /\ now = Num(473000, 1234567)

\* whole days between now and expiresAt
WholeDays(expiresAt) == Minus(expiresAt, now).h \div 24

Pipeline ==
  <<"getSession", "validateSession", "privateKeyToAccountSigner", "prepareCalls",
    "signPreparedCalls", "sendPreparedCalls", "waitForCallsStatus">>

\* C27: a sendTransaction call takes its steps in the order validate,
\* context check, prepare, sign, submit, wait, return: prepareCalls only
\* after a successful validation of a session with a context,
\* signPreparedCalls only after prepareCalls, sendPreparedCalls only after
\* signPreparedCalls, waitForCallsStatus only after sendPreparedCalls gave
\* an identifier, and none of them more than once per call.
C27_PipelineOrder ==
  \A c \in Calls :
    LET call == calls[c]
    IN /\ Len(call.steps) <= Len(Pipeline)
       /\ call.steps = SubSeq(Pipeline, 1, Len(call.steps))
       /\ Has(call.steps, "prepareCalls") =>
            /\ call.validation = <<[valid |-> TRUE]>>
            /\ call.session[1].permissionsContext # NoContext
       /\ Has(call.steps, "waitForCallsStatus") => call.callId # ""
       /\ call.pc = "returned" => Has(call.steps, "sendPreparedCalls")
       /\ call.pc = "awaitPrepareCalls" => call.steps[Len(call.steps)] = "prepareCalls"
       /\ call.pc = "awaitSignPreparedCalls" =>
            call.steps[Len(call.steps)] = "signPreparedCalls"
       /\ call.pc = "awaitSendPreparedCalls" =>
            call.steps[Len(call.steps)] = "sendPreparedCalls"
       /\ call.pc = "awaitWaitForCallsStatus" =>
            call.steps[Len(call.steps)] = "waitForCallsStatus"

C27_Witness ==
  \E c \in Calls :
    /\ calls[c].pc = "returned"
    /\ calls[c].steps = Pipeline
    /\ calls[c].result[1].transactionHash = "0xtx"

\* the session call c holds no longer passes validateSession
HeldSessionInvalid(c) ==
  calls[c].session # <<>> /\ ~validateSession(calls[c].session, now).valid

\* C28: a sendTransaction validates its session once, at its start, and is
\* not stopped afterwards: revokeSession and the passing of expiresAt leave
\* a call in flight where it is, and a call whose session has been revoked
\* or has expired since still goes from prepare to sign and from sign to
\* submit when those steps succeed.
C28_NotCancellable ==
  [][\A c \in Calls :
       /\ Len(SelectSeq(calls'[c].steps, LAMBDA step : step = "validateSession")) <= 1
       /\ (/\ calls[c].pc \in {"awaitPrepareCalls", "awaitSignPreparedCalls",
                               "awaitSendPreparedCalls"}
           /\ \/ Tick
              \/ \E u \in SendUsers, i \in WalletIndexes : RevokeSession(u, i)) =>
            /\ calls'[c].pc = calls[c].pc
            /\ calls'[c].steps = calls[c].steps
            /\ calls'[c].error = ""
       /\ (HeldSessionInvalid(c) /\ PrepareCallsSettles(c, "ok")) =>
            calls'[c].pc = "awaitSignPreparedCalls"
       /\ (HeldSessionInvalid(c) /\ SignPreparedCallsSettles(c, "ok")) =>
            calls'[c].pc = "awaitSendPreparedCalls"]_vars

C28_Witness ==
  \E c \in Calls :
    /\ calls[c].pc = "returned"
    /\ calls[c].validation = <<[valid |-> TRUE]>>
    /\ calls[c].session[1].revoked
    /\ Has(calls[c].steps, "sendPreparedCalls")

\* the record a successful storeSession(u, d, i) leaves at its key, but for
\* the two address fields
Supersedes(u, d, i) ==
  LET key == buildStorageKey(u, i)
      stored == sessions'[key]
  IN /\ DOMAIN sessions' = DOMAIN sessions \cup {key}
     /\ \A other \in DOMAIN sessions \ {key} : sessions'[other] = sessions[other]
     /\ (Storage_getSession(u, i))' = <<stored>>
     /\ DOMAIN stored = DOMAIN d \cup {"oid", "revoked", "createdAt"}
     /\ \A f \in DOMAIN d \ {"sessionKeyAddress", "accountAddress"} : stored[f] = d[f]
     /\ stored.revoked = FALSE
     /\ stored.createdAt = now
     /\ key \in DOMAIN sessions => stored.oid # sessions[key].oid

\* C29 as claimed: after a successful storeSession(u, d, i), getSession(u, i)
\* returns a record whose fields are exactly those of d, with revoked =
\* false and createdAt set; nothing of the session stored before survives
\* and the key holds one session.
C29_SupersedesWithDraftFields ==
  [][\A u \in Users, d \in StoreDrafts, i \in WalletIndexes :
       (StoreSession(u, d, i) /\ ret'.error = "") =>
         /\ Supersedes(u, d, i)
         /\ sessions'[buildStorageKey(u, i)].sessionKeyAddress = d.sessionKeyAddress
         /\ sessions'[buildStorageKey(u, i)].accountAddress = d.accountAddress]_vars

\* C29 amended: as above, except that sessionKeyAddress and accountAddress
\* are returned in checksummed form (getAddress of d's), whatever the case
\* of the addresses in d.
C29_SupersedesWithChecksummedAddresses ==
  [][\A u \in Users, d \in StoreDrafts, i \in WalletIndexes :
       (StoreSession(u, d, i) /\ ret'.error = "") =>
         /\ Supersedes(u, d, i)
         /\ sessions'[buildStorageKey(u, i)].sessionKeyAddress
              = getAddress(d.sessionKeyAddress)
         /\ sessions'[buildStorageKey(u, i)].accountAddress
              = getAddress(d.accountAddress)]_vars

C29_Witness ==
  /\ ret = [op |-> "storeSession", error |-> ""]
  /\ nextOid = 3
  /\ \E key \in DOMAIN sessions :
       /\ sessions[key].oid = 2
       /\ sessions[key].sessionId = "s2"
       /\ ~sessions[key].revoked
       /\ DOMAIN sessions = {key}

\* C30 as claimed: a wallet-creation request that leaves the index to the
\* server saves its wallet at a key that held no wallet before, also when
\* two such requests are handled concurrently: no wallet is overwritten.
C30_AllocationNeverOverwrites ==
  [][\A r \in Requests :
       (calls[r].pc = "awaitNextIndex" /\ calls'[r].pc = "idle") =>
         LET key == buildStorageKey(calls[r].userId, calls[r].index)
         IN /\ key \notin DOMAIN wallets
            /\ DOMAIN wallets' = DOMAIN wallets \cup {key}]_vars

\* C32: when the confirmation wait of a sendTransaction settles, the call
\* returns {success: true, transactionHash}; transactionHash is the hash of
\* the first receipt when the wait returned a receipt carrying one, and the
\* submission identifier when the wait threw (failure or timeout), returned
\* no receipt, or returned a first receipt without a hash.  The caller gets
\* that very result.
C32_HashOrSubmissionId ==
  [][\A c \in Calls :
       /\ \A o \in WaitOutcomes :
            WaitForCallsStatusSettles(c, o) =>
              LET carried == /\ o.throws = ""
                             /\ o.receipts # <<>>
                             /\ o.receipts[1].transactionHash # ""
              IN /\ calls[c].callId = "call1"
                 /\ calls'[c].pc = "returned"
                 /\ calls'[c].result =
                      <<[success |-> TRUE,
                         transactionHash |-> IF carried THEN o.receipts[1].transactionHash
                                             ELSE calls[c].callId]>>
       /\ (calls[c].pc = "returned" /\ SendTransactionDone(c)) =>
            ret' = [op |-> "sendTransaction", value |-> calls[c].result]]_vars

C32_Witness ==
  /\ ret = [op |-> "sendTransaction",
            value |-> <<[success |-> TRUE, transactionHash |-> "0xtx"]>>]
  /\ \A c \in Calls : calls[c] = IdleCall
\* C37 as claimed: every result sendTransaction returns with success = true
\* carries a non-empty transactionHash, and is returned only after the
\* submission yielded an identifier.
C37_SuccessCarriesHash ==
  \A c \in Calls :
    calls[c].pc = "returned" =>
      /\ calls[c].result[1].success
      /\ calls[c].result[1].transactionHash # ""
      /\ calls[c].callId # ""
\* a step of the sendTransaction call c
SendTransactionStep(c) ==
  \/ \E u \in SendUsers, i \in WalletIndexes : SendTransactionStart(c, u, i)
  \/ \E to \in TxTargets : SendTransactionValidate(c, to)
  \/ \E o \in PrepareOutcomes : PrepareCallsSettles(c, o)
  \/ \E o \in SignOutcomes : SignPreparedCallsSettles(c, o)
  \/ \E o \in SubmitOutcomes : SendPreparedCallsSettles(c, o)
  \/ \E o \in WaitOutcomes : WaitForCallsStatusSettles(c, o)
  \/ SendTransactionDone(c)

\* C38: sendTransaction never writes to storage.  No step of a call,
\* whether the call is rejected by validation, fails in prepare, sign or
\* submit, has its wait fail, or succeeds, changes a stored session (its
\* revoked flag and expiresAt included), a stored wallet, or either file.
C38_SendWritesNothing ==
  [][\A c \in Calls :
       SendTransactionStep(c) =>
         /\ sessions' = sessions
         /\ wallets' = wallets
         /\ sessionsFile' = sessionsFile
         /\ walletsFile' = walletsFile]_vars

C38_Witness ==
  /\ ret = [op |-> "sendTransaction", error |-> "Session expired"]
  /\ \E key \in DOMAIN sessions :
       ~sessions[key].revoked /\ now > sessions[key].expiresAt
\* C35 as claimed: storage keys never collide across users, so a
\* storeSession or revokeSession addressed to one user leaves what
\* getSession returns for every other user, at every index, as it was.
C35_KeysNeverCollide ==
  [][\A u \in Users, i \in WalletIndexes :
       (\/ \E d \in StoreDrafts : StoreSession(u, d, i)
        \/ RevokeSession(u, i)) =>
         \A other \in Users \ {u}, j \in WalletIndexes :
           (Storage_getSession(other, j))' = Storage_getSession(other, j)]_vars
\* C36: within one sendTransaction call the key the signer is made from,
\* the from address and the permissions given to prepareCalls, the signer
\* given to signPreparedCalls and the permissions given to
\* sendPreparedCalls all come from the session record the call loaded at
\* its start, the permissions being that record's permissionsContext as
\* stored; the call keeps that record (but for its revoked flag) whatever
\* storeSession puts at the same key meanwhile.
C36_OneSessionPerCall ==
  [][\A c \in Calls :
       LET call == calls'[c]
           loaded == call.session[1]
       IN /\ (calls[c].pc = "idle" /\ call.pc # "idle") =>
               call.session = Storage_getSession("u", NoIndex)
          /\ (calls[c].pc # "idle" /\ call.pc # "idle" /\ calls[c].session # <<>>) =>
               /\ call.session # <<>>
               /\ [loaded EXCEPT !.revoked = FALSE]
                    = [calls[c].session[1] EXCEPT !.revoked = FALSE]
          /\ call.signerKey # <<>> => call.signerKey[1] = loaded.sessionKey
          /\ call.prepareArgs # <<>> =>
               /\ call.prepareArgs[1].from = loaded.accountAddress
               /\ call.prepareArgs[1].permissions.context = loaded.permissionsContext
          /\ call.signArgs # <<>> => call.signArgs[1].signerKey = loaded.sessionKey
          /\ call.submitArgs # <<>> =>
               call.submitArgs[1].permissions.context = loaded.permissionsContext]_vars

C36_Witness ==
  \E c \in Calls :
    /\ calls[c].pc = "returned"
    /\ calls[c].submitArgs = <<[permissions |-> [context |-> "0x00ctx"]]>>
    /\ calls[c].signArgs = <<[signerKey |-> "k1"]>>
    /\ sessions["u"].permissionsContext = "0x01ctx"
    /\ sessions["u"].sessionKey = "k2"
    /\ sessions["u"].oid # calls[c].session[1].oid
\* an initialization of the signer has started and has not completed
InitInProgress ==
  \E n \in 1 .. Len(signerModule.promises) : signerModule.promises[n].state = "pending"

\* C34 as claimed: an initializeSigner() call that arrives while an
\* initialization is in progress waits for the promise of that
\* initialization: it is not given the signer at once, and it starts no
\* second initialization.
C34_LockPreventsRace ==
  [][\A k \in Callers, env \in SignerEnvs :
       (InitInProgress /\ InitializeSigner(k, env)) =>
         /\ ret' = NoReturn
         /\ calls'[k].pc = "awaitLock"
         /\ signerModule.promises[calls'[k].promise].state = "pending"
         /\ signerModule'.promises = signerModule.promises]_vars
\* the values of a stored session that must not leave the server
Secrets(session) ==
  {session.sessionKey, session.signature, session.permissionsContext}

\* C33: every response of GET /api/session is either the 404 error or a
\* body with exactly the fields sessionId, permissions, expiresAt, revoked and
\* walletIndex, and neither text field of the body is the sessionKey, the
\* signature or the permissionsContext of any stored session.
C33_InfoExcludesSecrets ==
  ret.op = "GET /api/session" =>
    \/ /\ ret.status = 404
       /\ ret.body = [error |-> "No session found"]
    \/ /\ ret.status = 200
       /\ DOMAIN ret.body
            = {"sessionId", "permissions", "expiresAt", "revoked", "walletIndex"}
       /\ \A key \in DOMAIN sessions :
            /\ ret.body.sessionId \notin Secrets(sessions[key])
            /\ ret.body.permissions \notin Secrets(sessions[key])

\* a revoked session stored at index 1 is read back while another user
\* holds a session as well
C33_Witness ==
  /\ ret.op = "GET /api/session"
  /\ ret.status = 200
  /\ ret.body.revoked
  /\ ret.body.walletIndex = 1
  /\ Cardinality(DOMAIN sessions) = MaxStores
  /\ \E key \in DOMAIN sessions : sessions[key].sessionKey # ""

\* what a caller can read of each object of a list
JSONList(list) == [n \in 1 .. Len(list) |-> ToJSON(list[n])]

\* the elements of a list with their multiplicities
SeqToBag(list) ==
  [x \in {list[n] : n \in 1 .. Len(list)} |->
     Cardinality({n \in 1 .. Len(list) : list[n] = x})]

\* getSession, getWallet and getWallets of the running FileStorage and of
\* one constructed from the files return the same for every user and index,
\* and each file holds the table of its Map
ReloadKeepsRecords ==
  /\ sessionsFile = Serialize(sessions)
  /\ walletsFile = Serialize(wallets)
  /\ \A u \in StorageUsers :
       /\ JSONList(Storage_getWallets(u))
            = ListWallets(walletsFile, keyOrder.walletsFile, u)
       /\ \A i \in WalletIndexes :
            LET key == buildStorageKey(u, i)
            IN /\ (key \in DOMAIN sessions) = (key \in DOMAIN sessionsFile)
               /\ (key \in DOMAIN wallets) = (key \in DOMAIN walletsFile)
               /\ key \in DOMAIN sessions =>
                    /\ ToJSON(sessions[key]) = sessionsFile[key]
                    /\ sessions[key].revoked = sessionsFile[key].revoked
               /\ key \in DOMAIN wallets => ToJSON(wallets[key]) = walletsFile[key]

ContractOps ==
  {"saveSession", "getSession", "getSessions", "revokeSession", "deleteSession",
   "saveWallet", "getWallet", "deleteWallet"}

\* C39: started empty and given the same calls, the FileStorage and the
\* InMemoryStorage return the same result for every call, and getSession
\* or getWallet of an absent key returns null in both.
C39_SameContract ==
  [][/\ ret'.op \in ContractOps => ret'.file = ret'.memory
     /\ \A u \in StorageUsers, i \in WalletIndexes :
          /\ (Contract_getSession(u, i) /\ buildStorageKey(u, i) \notin DOMAIN sessions)
               => ret'.file = <<>> /\ ret'.memory = <<>>
          /\ (Contract_getWallet(u, i) /\ buildStorageKey(u, i) \notin DOMAIN wallets)
               => ret'.file = <<>> /\ ret'.memory = <<>>]_vars

\* both stores list two sessions of a user, the first one revoked
C39_Witness ==
  /\ ret.op = "getSessions"
  /\ Len(ret.file) = 2
  /\ Len(ret.memory) = 2
  /\ ret.memory[1].revoked
  /\ ~ret.memory[2].revoked

====
